---- MODULE Spec2Model ----
(***************************************************************************)
(* A model of osu2sm's chart pipeline core: the bucket store               *)
(* (node::SimfileStore), the bucket resolver (resolve_buckets) and the     *)
(* key remapper (convert).                                                 *)
(***************************************************************************)
EXTENDS Integers, Sequences, FiniteSets, TLC

(***************************************************************************)
(* Bounds of the model.                                                    *)
(***************************************************************************)
\* Lists the store may hold in all its buckets before put is no longer offered.
MaxLists == 2

(***************************************************************************)
(* Input alphabets.                                                        *)
(***************************************************************************)
\* Bucket names; the empty string is the resolved name of BucketId::Null.
Names == {"a", "b"}
NullName == ""
\* Charts are identified by a small number; a clone is the same value.
Charts == {1, 2}
\* The lists handed to put.
PutLists == {<<>>, <<1>>, <<1, 2>>}
GlobalNames == {"g"}
GlobalValues == {"x"}

VARIABLES
    \* node::SimfileStore
    by_name,    \* HashMap<String, Bucket>: a function on the names present
    globals,    \* HashMap<String, String>
    tmp_vec,    \* SimfileStore::tmp_vec
    stack,      \* the open get/get_each call: <<>> or <<frame>>
    hist,       \* ghost: per name, the lists put since the last take of the name
    \* transform::SimfileStore, the store of the crate's transform pipeline
    t_by_name,  \* HashMap<String, Vec<Box<Simfile>>>
    pipeline,   \* which of the crate's pipelines runs: "node", "transform" or "filter"
    \* resolve_buckets
    graph,      \* the node descriptions handed to resolve_buckets
    rphase,     \* "input", "layered" (names bound), "resolved" (takes set), "failed"
    sched,      \* ctx.out: the schedule built so far
    rerr,       \* the error resolve_buckets returned, "" when none
    \* convert (node::remap and filter)
    sm,         \* the chart handed to convert, then the chart it leaves
    conf,       \* the Remap / Convert configuration
    sm_in,      \* ghost: the chart as it was handed in
    cphase,     \* "idle", "input" (convert not yet called) or "done"
    ctrace      \* ghost: what the call did (notes before retain, RNG draws, alloc calls)

storeVars == <<by_name, globals, tmp_vec, stack, hist, t_by_name>>

resolveVars == <<graph, rphase, sched, rerr>>

remapVars == <<sm, conf, sm_in, cphase, ctrace>>

vars == <<by_name, globals, tmp_vec, stack, hist, t_by_name, pipeline,
          graph, rphase, sched, rerr, sm, conf, sm_in, cphase, ctrace>>

(***************************************************************************)
(* Sequence helpers.                                                       *)
(***************************************************************************)
Reverse(s) == [i \in 1..Len(s) |-> s[Len(s) + 1 - i]]

RECURSIVE Flatten(_)
Flatten(ss) == IF ss = <<>> THEN <<>> ELSE Head(ss) \o Flatten(Tail(ss))

Last(s) == s[Len(s)]

RemoveKey(f, k) == [x \in DOMAIN f \ {k} |-> f[x]]

SetKey(f, k, v) == [x \in DOMAIN f \cup {k} |-> IF x = k THEN v ELSE f[x]]

(***************************************************************************)
(* Bucket (node.rs).  simfiles is the flat vector, lists holds the end     *)
(* index of every list.                                                    *)
(***************************************************************************)
EmptyBucket == [simfiles |-> <<>>, lists |-> <<>>]

\* Bucket::put_list: extend the flat vector, push its new length.
put_list(b, list) ==
    [simfiles |-> b.simfiles \o list,
     lists |-> Append(b.lists, Len(b.simfiles) + Len(list))]

\* Bucket::take_all: the flat vector.
take_all(b) == b.simfiles

take_lists_starts_noskip(b) == Reverse(b.lists)

\* Bucket::take_lists, the iteration order of its loop:
\* self.lists.drain(..).rev().skip(1)
take_lists_starts(b) ==
    IF b.lists = <<>> THEN <<>> ELSE Tail(Reverse(b.lists))

\* The lists a bucket holds, decoded from the end indices, in put order.
ListsOf(b) ==
    [i \in 1..Len(b.lists) |->
        SubSeq(b.simfiles, (IF i = 1 THEN 0 ELSE b.lists[i - 1]) + 1, b.lists[i])]

(***************************************************************************)
(* SimfileStore (node.rs).                                                 *)
(***************************************************************************)
\* put and global_set are called by the driver (no call open) or by the
\* running visitor of the open call (Remap::apply puts from its visitor).
\* A node reads one bucket per apply, so reads are opened by the driver.
CanCall == IF stack = <<>> THEN TRUE ELSE Last(stack).busy

Top == Last(stack)

SetTop(f) == [stack EXCEPT ![Len(stack)] = f]

Pop == SubSeq(stack, 1, Len(stack) - 1)

RECURSIVE SumLists(_)
SumLists(S) ==
    IF S = {} THEN 0
    ELSE LET n == CHOOSE x \in S : TRUE IN
         Len(by_name[n].lists) + SumLists(S \ {n})

StoredLists == SumLists(DOMAIN by_name)

\* SimfileStore::put
Put(name, list) ==
    /\ pipeline = "node"
    /\ CanCall
    /\ StoredLists < MaxLists
    /\ IF name = NullName
       THEN UNCHANGED <<by_name, hist>>
       ELSE /\ by_name' = SetKey(by_name, name,
                    put_list(IF name \in DOMAIN by_name
                             THEN by_name[name] ELSE EmptyBucket, list))
            /\ hist' = [hist EXCEPT ![name] = Append(@, list)]
    /\ UNCHANGED <<globals, tmp_vec, stack, t_by_name, pipeline>>
    /\ UNCHANGED <<resolveVars, remapVars>>

\* SimfileStore::global_set
GlobalSet(name, value) ==
    /\ pipeline = "node"
    /\ CanCall
    /\ globals' = SetKey(globals, name, value)
    /\ UNCHANGED <<by_name, tmp_vec, stack, hist, t_by_name, pipeline>>
    /\ UNCHANGED <<resolveVars, remapVars>>

\* SimfileStore::reset, called by the driver between simfile sets.
Reset ==
    /\ pipeline = "node"
    /\ stack = <<>>
    /\ by_name' = << >>
    /\ globals' = << >>
    /\ hist' = [n \in Names |-> <<>>]
    /\ UNCHANGED <<tmp_vec, stack, t_by_name, pipeline>>
    /\ UNCHANGED <<resolveVars, remapVars>>

ReadTakes_always(name, take) == TRUE

ReadTakes_never(name, take) == FALSE

\* Whether a read removes the bucket from the store (`if take`) or clones it.
ReadTakes(name, take) == take

Frame(fn, name, take, starts, flat, tmp, last) ==
    [fn |-> fn, name |-> name, take |-> take,
     starts |-> starts, flat |-> flat, tmp |-> tmp, last |-> last,
     busy |-> FALSE, handed |-> "none", visited |-> <<>>,
     snap |-> hist[name]]

\* SimfileStore::get up to the call of take_lists.
GetBegin(name, take) ==
    /\ pipeline = "node"
    /\ stack = <<>>
    /\ IF name # NullName /\ name \in DOMAIN by_name
       THEN LET b == by_name[name] IN
            /\ by_name' = IF ReadTakes(name, take)
                          THEN RemoveKey(by_name, name) ELSE by_name
            /\ hist' = IF take THEN [hist EXCEPT ![name] = <<>>] ELSE hist
            /\ tmp_vec' = <<>>
            /\ stack' = Append(stack,
                   Frame("get", name, take, take_lists_starts(b),
                         b.simfiles, tmp_vec, b.lists # <<>>))
       ELSE UNCHANGED <<by_name, hist, tmp_vec, stack>>
    /\ UNCHANGED <<globals, t_by_name, pipeline>>
    /\ UNCHANGED <<resolveVars, remapVars>>

\* SimfileStore::get_each up to its drain loop.
GetEachBegin(name, take) ==
    /\ pipeline = "node"
    /\ stack = <<>>
    /\ IF name # NullName /\ name \in DOMAIN by_name
       THEN LET b == by_name[name] IN
            /\ hist' = IF take THEN [hist EXCEPT ![name] = <<>>] ELSE hist
            /\ IF ReadTakes(name, take)
               THEN /\ by_name' = RemoveKey(by_name, name)
                    /\ stack' = Append(stack,
                           Frame("get_each", name, take, <<>>,
                                 take_all(b), <<>>, FALSE))
                    /\ UNCHANGED tmp_vec
               ELSE /\ tmp_vec' = <<>>
                    /\ stack' = Append(stack,
                           Frame("get_each", name, take, <<>>,
                                 tmp_vec \o b.simfiles, <<>>, FALSE))
                    /\ UNCHANGED by_name
       ELSE UNCHANGED <<by_name, hist, tmp_vec, stack>>
    /\ UNCHANGED <<globals, t_by_name, pipeline>>
    /\ UNCHANGED <<resolveVars, remapVars>>

\* One iteration of take_lists (get) or of the drain loop (get_each): the
\* visitor is called with the next list or chart.
VisitCall ==
    /\ stack # <<>>
    /\ ~Top.busy
    /\ LET f == Top IN
       IF f.fn \in {"get", "t_get"}
       THEN /\ IF f.starts # <<>> THEN TRUE ELSE f.last
            /\ IF f.starts # <<>>
               THEN LET start_idx == Head(f.starts)
                        list == SubSeq(f.flat, start_idx + 1, Len(f.flat)) IN
                    stack' = SetTop([f EXCEPT
                        !.starts = Tail(f.starts),
                        !.tmp = list,
                        !.flat = SubSeq(f.flat, 1, start_idx),
                        !.busy = TRUE, !.handed = "tmp",
                        !.visited = Append(@, list)])
               ELSE stack' = SetTop([f EXCEPT
                        !.last = FALSE,
                        !.busy = TRUE, !.handed = "flat",
                        !.visited = Append(@, f.flat)])
       ELSE /\ f.flat # <<>>
            /\ stack' = SetTop([f EXCEPT
                   !.flat = Tail(f.flat),
                   !.busy = TRUE, !.handed = "chart",
                   !.visited = Append(@, <<Head(f.flat)>>)])
    /\ UNCHANGED <<by_name, globals, tmp_vec, hist, t_by_name, pipeline>>
    /\ UNCHANGED <<resolveVars, remapVars>>

\* The visitor returns.  It may have emptied the list it was handed
\* (keep = FALSE, as Remap::apply does with mem::replace) and it may fail,
\* which ends the call at once through `?`.
VisitReturn(keep, ok) ==
    /\ stack # <<>>
    /\ Top.busy
    /\ LET f == Top
           g == [f EXCEPT
                   !.busy = FALSE,
                   !.tmp = IF f.handed = "tmp" /\ ~keep THEN <<>> ELSE @,
                   !.flat = IF f.handed = "flat" /\ ~keep THEN <<>> ELSE @] IN
       stack' = IF ok THEN SetTop(g) ELSE Pop
    /\ UNCHANGED <<by_name, globals, tmp_vec, hist, t_by_name, pipeline>>
    /\ UNCHANGED <<resolveVars, remapVars>>

\* The call returns Ok after its last visit.  get stores its local tmp_vec
\* back; get_each keeps whichever of `all` (drained, empty) and
\* self.tmp_vec has the larger capacity.
ReadDone(f) ==
    /\ ~f.busy
    /\ IF f.fn \in {"get", "t_get"}
       THEN f.starts = <<>> /\ ~f.last
       ELSE f.flat = <<>>

GetReturn ==
    /\ stack # <<>>
    /\ ReadDone(Top)
    /\ Top.fn = "get"
    /\ tmp_vec' = Top.tmp
    /\ stack' = Pop
    /\ UNCHANGED <<by_name, globals, hist, t_by_name, pipeline>>
    /\ UNCHANGED <<resolveVars, remapVars>>

GetEachReturn(swap) ==
    /\ stack # <<>>
    /\ ReadDone(Top)
    /\ Top.fn = "get_each"
    /\ tmp_vec' = IF swap THEN <<>> ELSE tmp_vec
    /\ stack' = Pop
    /\ UNCHANGED <<by_name, globals, hist, t_by_name, pipeline>>
    /\ UNCHANGED <<resolveVars, remapVars>>

(***************************************************************************)
(* SimfileStore (transform.rs): one flat vector per name.                  *)
(***************************************************************************)
RECURSIVE SumHist(_)
SumHist(S) ==
    IF S = {} THEN 0
    ELSE LET n == CHOOSE x \in S : TRUE IN Len(hist[n]) + SumHist(S \ {n})

\* transform::SimfileStore::put
TPut(name, list) ==
    /\ pipeline = "transform"
    /\ CanCall
    /\ SumHist(Names) < MaxLists
    /\ IF name = NullName
       THEN UNCHANGED <<t_by_name, hist>>
       ELSE /\ t_by_name' = SetKey(t_by_name, name,
                    (IF name \in DOMAIN t_by_name
                     THEN t_by_name[name] ELSE <<>>) \o list)
            /\ hist' = [hist EXCEPT ![name] = Append(@, list)]
    /\ UNCHANGED <<by_name, globals, tmp_vec, stack, pipeline>>
    /\ UNCHANGED <<resolveVars, remapVars>>

\* transform::SimfileStore::get (each = FALSE) and get_each (each = TRUE),
\* which is get with a visitor that loops over the list.
TGetBegin(name, take, each) ==
    /\ pipeline = "transform"
    /\ stack = <<>>
    /\ IF name # NullName /\ name \in DOMAIN t_by_name
       THEN /\ t_by_name' = IF ReadTakes(name, take)
                            THEN RemoveKey(t_by_name, name) ELSE t_by_name
            /\ hist' = IF take THEN [hist EXCEPT ![name] = <<>>] ELSE hist
            /\ stack' = Append(stack,
                   Frame(IF each THEN "t_get_each" ELSE "t_get", name, take,
                         <<>>, t_by_name[name], <<>>, ~each))
       ELSE UNCHANGED <<t_by_name, hist, stack>>
    /\ UNCHANGED <<by_name, globals, tmp_vec, pipeline>>
    /\ UNCHANGED <<resolveVars, remapVars>>

TGetReturn ==
    /\ stack # <<>>
    /\ ReadDone(Top)
    /\ Top.fn \in {"t_get", "t_get_each"}
    /\ stack' = Pop
    /\ UNCHANGED <<by_name, globals, tmp_vec, hist, t_by_name, pipeline>>
    /\ UNCHANGED <<resolveVars, remapVars>>

RemapIdle ==
    /\ sm = <<>>
    /\ conf = <<>>
    /\ sm_in = <<>>
    /\ cphase = "idle"
    /\ ctrace = <<>>

ResolveIdle ==
    /\ graph = <<>>
    /\ rphase = "idle"
    /\ sched = <<>>
    /\ rerr = ""

InitStore ==
    /\ pipeline \in {"node", "transform"}
    /\ ResolveIdle
    /\ RemapIdle
    /\ t_by_name = << >>
    /\ by_name = << >>
    /\ globals = << >>
    /\ tmp_vec = <<>>
    /\ stack = <<>>
    /\ hist = [n \in Names |-> <<>>]

NextStore ==
    \/ \E name \in Names \cup {NullName}, list \in PutLists : Put(name, list)
    \/ \E name \in GlobalNames, value \in GlobalValues : GlobalSet(name, value)
    \/ Reset
    \/ \E name \in Names \cup {NullName}, take \in BOOLEAN : GetBegin(name, take)
    \/ \E name \in Names \cup {NullName}, take \in BOOLEAN : GetEachBegin(name, take)
    \/ VisitCall
    \/ \E keep \in BOOLEAN, ok \in BOOLEAN : VisitReturn(keep, ok)
    \/ GetReturn
    \/ \E swap \in BOOLEAN : GetEachReturn(swap)
    \/ \E name \in Names \cup {NullName}, list \in PutLists : TPut(name, list)
    \/ \E name \in Names \cup {NullName}, take \in BOOLEAN, each \in BOOLEAN :
            TGetBegin(name, take, each)
    \/ TGetReturn

SpecStore == InitStore /\ [][NextStore]_vars

(***************************************************************************)
(* Claims about the bucket store.                                          *)
(***************************************************************************)
GetOpen == stack # <<>> /\ Top.fn = "get"

\* C1: get visits the lists of the bucket in insertion order (the list of the
\* first put first, the list of the last put last): the lists visited so far
\* are the first lists put.
C1_InsertionOrder ==
    GetOpen =>
        \A i \in 1..Len(Top.visited) :
            i <= Len(Top.snap) /\ Top.visited[i] = Top.snap[i]

\* C2: every list handed to the visitor of get is exactly the list of one put,
\* charts in put order, each put visited once (the i-th visit is handed the
\* list of the i-th last put), an empty put included; a get that has finished
\* has made one visit per put.
C2_ListsAreThePutLists ==
    GetOpen =>
        /\ Len(Top.visited) <= Len(Top.snap)
        /\ \A i \in 1..Len(Top.visited) :
               Top.visited[i] = Top.snap[Len(Top.snap) + 1 - i]
        /\ ReadDone(Top) => Len(Top.visited) = Len(Top.snap)

C2_Witness ==
    /\ GetOpen
    /\ ReadDone(Top)
    /\ Top.visited = << <<1, 2>>, <<>> >>
    /\ Top.snap = << <<>>, <<1, 2>> >>

\* C3: after a take read of an existing bucket the name is absent from the
\* store, already while the visitor runs, and a put to the name during or
\* after the visit starts a bucket that holds only the lists put since.
C3_TakeRemovesBucket ==
    \A name \in Names :
        IF pipeline = "node"
        THEN IF hist[name] = <<>>
             THEN name \notin DOMAIN by_name
             ELSE name \in DOMAIN by_name /\ ListsOf(by_name[name]) = hist[name]
        ELSE IF hist[name] = <<>>
             THEN name \notin DOMAIN t_by_name
             ELSE name \in DOMAIN t_by_name /\ t_by_name[name] = Flatten(hist[name])

C3_Witness ==
    /\ pipeline = "node"
    /\ stack # <<>>
    /\ Top.take
    /\ Top.busy
    /\ Top.snap = << <<1, 2>> >>
    /\ Top.name \in DOMAIN by_name
    /\ ListsOf(by_name[Top.name]) = << <<>> >>

\* The steps of a read that clones: its begin, its visits, its return.
CloneReadStep ==
    \/ \E name \in Names : GetBegin(name, FALSE) \/ GetEachBegin(name, FALSE)
    \/ /\ stack # <<>>
       /\ ~Top.take
       /\ \/ VisitCall
          \/ \E keep \in BOOLEAN, ok \in BOOLEAN : VisitReturn(keep, ok)
          \/ GetReturn
          \/ \E swap \in BOOLEAN : GetEachReturn(swap)

\* C4: a read with take = false leaves the stored bucket as it was (same
\* lists, same charts, same order), also when the visitor empties the list it
\* is handed, and no step of the read changes any bucket or any global.
C4_CloneLeavesStore ==
    /\ [](pipeline = "node" /\ stack # <<>> /\ ~Top.take =>
            /\ Top.name \in DOMAIN by_name
            /\ Len(hist[Top.name]) >= Len(Top.snap)
            /\ SubSeq(ListsOf(by_name[Top.name]), 1, Len(Top.snap)) = Top.snap)
    /\ [][CloneReadStep => UNCHANGED <<by_name, globals>>]_vars

C4_Witness ==
    /\ pipeline = "node"
    /\ stack # <<>>
    /\ ~Top.take
    /\ ~Top.busy
    /\ Top.visited = << <<1, 2>> >>
    /\ Top.flat = <<>>
    /\ ListsOf(by_name[Top.name]) = << <<1, 2>> >>

(***************************************************************************)
(* BucketId, BucketKind and nodes (node.rs, transform.rs).  A bucket name  *)
(* is the sequence of its characters; "" is <<>>.                          *)
(***************************************************************************)
\* Inner lists of a Nest/Chain have at most this many nodes.
MaxInner == 2
\* Top-level lists without nesting have at most this many nodes.
MaxNodes == 3

None == <<>>

Some(v) == <<v>>

Auto == [tag |-> "Auto", name |-> <<>>, take |-> FALSE, inner |-> <<>>]

Null == [tag |-> "Null", name |-> <<>>, take |-> FALSE, inner |-> <<>>]

Name(s) == [tag |-> "Name", name |-> s, take |-> FALSE, inner |-> <<>>]

Nest(l) == [tag |-> "Nest", name |-> <<>>, take |-> FALSE, inner |-> l]

Chain(l) == [tag |-> "Chain", name |-> <<>>, take |-> FALSE, inner |-> l]

\* transform::BucketId::Inline holds one transform.
Inline(l) == [tag |-> "Inline", name |-> <<>>, take |-> FALSE, inner |-> l]

Resolved(n, t) == [tag |-> "Resolved", name |-> n, take |-> t, inner |-> <<>>]

Slot(kind, id) == [kind |-> kind, id |-> id]

\* A node: its bucket slots in buckets_mut order.  label stands for the rest
\* of the node (its configuration), which resolve_buckets clones untouched.
Node(slots) == [label |-> <<>>, slots |-> slots]

In(id) == Slot("Input", id)

Out(id) == Slot("Output", id)

Gen(id) == Slot("Generic", id)

\* BucketKind::is_input
is_input(kind) == kind = "Input"

\* format!("{}", n) for an unsigned number
DigitChars == <<"0", "1", "2", "3", "4", "5", "6", "7", "8", "9">>

RECURSIVE Digits(_)
Digits(n) ==
    IF n < 10 THEN <<DigitChars[n + 1]>>
    ELSE Digits(n \div 10) \o <<DigitChars[(n % 10) + 1]>>

\* name.starts_with("~")
starts_with_tilde_whole(name) == name = <<"~">>

starts_with_tilde(name) == name # <<>> /\ name[1] = "~"

gen_unique_name_reuse(ctx) ==
    [ctx |-> ctx, name |-> <<"~">> \o Digits(ctx.next_id + 1)]

\* State::gen_unique_name: the context after the call and the name.
gen_unique_name(ctx) ==
    [ctx |-> [ctx EXCEPT !.next_id = @ + 1],
     name |-> <<"~">> \o Digits(ctx.next_id + 1)]

InsertAt_push(s, idx, x) == Append(s, x)

\* Vec::insert(idx, x), idx counted from 0.
InsertAt(s, idx, x) == SubSeq(s, 1, idx) \o <<x>> \o SubSeq(s, idx + 1, Len(s))

(***************************************************************************)
(* node::resolve_buckets.                                                  *)
(***************************************************************************)
take_or_default(last_magnetic_out) ==
    IF last_magnetic_out = None THEN Some(<<"~", "i", "n">>) ELSE last_magnetic_out

\* The value last_magnetic_out.take() hands to an input slot.
take_last_magnetic_out(last_magnetic_out) == last_magnetic_out

RECURSIVE resolve_layer(_, _, _, _, _)
RECURSIVE layer_loop(_, _, _, _, _, _, _)
RECURSIVE slot_loop(_, _, _)

\* The body of `for (kind, bucket) in node.buckets_mut()` for one slot.
\* st holds ctx, last_magnetic_out, magnetic_out, insert_idx and the slots
\* resolved so far.
resolve_slot(st, slot) ==
    LET kind == slot.kind
        bucket == slot.id
        ctx == st.ctx
        is_chained == bucket.tag = "Chain"
        Err(msg) == [st EXCEPT !.ctx.err = msg]
        Bind(st2, name) ==
            [st2 EXCEPT !.slots = Append(@, Slot(kind, Resolved(name, FALSE)))]
    IN
    CASE bucket.tag = "Auto" ->
            (CASE kind = "Input" ->
                    IF take_last_magnetic_out(st.last_magnetic_out) = None
                    THEN Err("input_unbound")
                    ELSE Bind([st EXCEPT !.last_magnetic_out = None],
                              take_last_magnetic_out(st.last_magnetic_out)[1])
               [] kind = "Output" ->
                    IF st.magnetic_out # None
                    THEN Bind(st, st.magnetic_out[1])
                    ELSE LET g == gen_unique_name(ctx) IN
                         Bind([st EXCEPT !.ctx = g.ctx,
                                         !.magnetic_out = Some(g.name)], g.name)
               [] OTHER -> Err("generic_auto"))
      [] bucket.tag = "Name" ->
            IF starts_with_tilde(bucket.name)
            THEN Err("reserved_name")
            ELSE Bind(st, bucket.name)
      [] bucket.tag \in {"Nest", "Chain"} ->
            (CASE kind = "Input" ->
                    IF take_last_magnetic_out(st.last_magnetic_out) = None
                    THEN Err("input_unbound")
                    ELSE LET into_nested == take_last_magnetic_out(st.last_magnetic_out)[1]
                             g == gen_unique_name(ctx)
                             from_nested == g.name
                             c2 == resolve_layer(g.ctx, Some(into_nested),
                                       Some(from_nested), bucket.inner, is_chained)
                         IN Bind([st EXCEPT !.ctx = c2,
                                            !.last_magnetic_out = None,
                                            !.insert_idx = Len(c2.out)],
                                 from_nested)
               [] kind = "Output" ->
                    LET g1 == gen_unique_name(ctx)
                        into_nested == g1.name
                        g2 == IF st.magnetic_out # None
                              THEN [ctx |-> g1.ctx, name |-> st.magnetic_out[1]]
                              ELSE gen_unique_name(g1.ctx)
                        from_nested == g2.name
                        c2 == resolve_layer(g2.ctx, Some(into_nested),
                                  Some(from_nested), bucket.inner, is_chained)
                    IN Bind([st EXCEPT !.ctx = c2,
                                       !.magnetic_out = Some(from_nested)],
                            into_nested)
               [] OTHER -> Err("generic_nest"))
      [] bucket.tag = "Null" -> Bind(st, <<>>)
      [] OTHER -> Err("resolved_direct")

slot_loop(st, slots, k) ==
    IF st.ctx.err # "" \/ k > Len(slots) THEN st
    ELSE slot_loop(resolve_slot(st, slots[k]), slots, k + 1)

magnetic_out_parent(output, chained, i, in_node_count) == output

\* The value magnetic_out starts with at node i (counted from 1): the layer's
\* output in a layer that is not chained and at the last node, else nothing.
magnetic_out_init(output, chained, i, in_node_count) ==
    IF ~chained \/ i = in_node_count THEN output ELSE None

unused_output_ok_anywhere(last_magnetic_out, i) == TRUE

\* Whether a value left in last_magnetic_out after a node's slots is
\* tolerated: only at the first node of the layer (i == 0).
unused_output_ok(last_magnetic_out, i) == last_magnetic_out = None \/ i = 1

\* The body of `for (i, orig_node) in nodes.iter().enumerate()`, from
\* node i (counted from 1) on.
layer_loop(ctx, input, output, nodes, chained, i, last_magnetic_out) ==
    IF ctx.err # "" \/ i > Len(nodes) THEN ctx
    ELSE LET magnetic_out == magnetic_out_init(output, chained, i, Len(nodes))
             lmo == IF ~chained THEN input ELSE last_magnetic_out
             st == slot_loop([ctx |-> ctx, last_magnetic_out |-> lmo,
                              magnetic_out |-> magnetic_out,
                              insert_idx |-> Len(ctx.out), slots |-> <<>>],
                             nodes[i].slots, 1)
             node == [nodes[i] EXCEPT !.slots = st.slots]
         IN IF st.ctx.err # "" THEN st.ctx
            ELSE IF ~unused_output_ok(st.last_magnetic_out, i)
            THEN [st.ctx EXCEPT !.err = "output_unused"]
            ELSE layer_loop([st.ctx EXCEPT !.out = InsertAt(@, st.insert_idx, node)],
                            input, output, nodes, chained, i + 1, st.magnetic_out)

resolve_layer(ctx, input, output, nodes, chained) ==
    layer_loop(ctx, input, output, nodes, chained, 1, input)

(***************************************************************************)
(* The last-read pass of both resolve_buckets.                             *)
(***************************************************************************)
\* The slots of a schedule as <<node index, slot index>>, in iteration order.
SlotPositions(out) ==
    LET Count[n \in 0..Len(out)] ==
            IF n = 0 THEN <<>>
            ELSE Count[n - 1] \o [k \in 1..Len(out[n].slots) |-> <<n, k>>]
    IN Count[Len(out)]

last_reads_first_wins(m, name, pos) ==
    IF name \in DOMAIN m THEN m ELSE SetKey(m, name, pos)

\* last_reads.insert(name, bucket): a later slot replaces an earlier one.
last_reads_insert(m, name, pos) == SetKey(m, name, pos)

RECURSIVE last_reads(_, _, _, _)
last_reads(out, positions, k, m) ==
    IF k > Len(positions) THEN m
    ELSE LET pos == positions[k]
             slot == out[pos[1]].slots[pos[2]]
         IN last_reads(out, positions, k + 1,
                IF is_input(slot.kind)
                THEN last_reads_insert(m, slot.id.name, pos) ELSE m)

\* `*take = true` for every entry of last_reads.
mark_takes(out) ==
    LET m == last_reads(out, SlotPositions(out), 1, << >>)
        taken == {m[n] : n \in DOMAIN m}
    IN [n \in 1..Len(out) |->
          [out[n] EXCEPT !.slots =
              [k \in 1..Len(out[n].slots) |->
                  IF <<n, k>> \in taken
                  THEN Slot(out[n].slots[k].kind,
                            Resolved(out[n].slots[k].id.name, TRUE))
                  ELSE out[n].slots[k]]]]

(***************************************************************************)
(* transform::resolve_buckets.                                             *)
(***************************************************************************)
\* The body of the slot loop of transform::resolve_buckets for one slot.
t_resolve_slot(st, slot) ==
    LET kind == slot.kind
        bucket == slot.id
        Err(msg) == [st EXCEPT !.ctx.err = msg]
        Bind(st2, name) ==
            [st2 EXCEPT !.slots = Append(@, Slot(kind, Resolved(name, FALSE)))]
    IN
    CASE bucket.tag = "Auto" ->
            (CASE kind = "Input" ->
                    Bind(st, IF st.last_magnetic_out = None
                             THEN <<"~", "i", "n">>
                             ELSE st.last_magnetic_out[1])
               [] kind = "Output" ->
                    IF st.magnetic_out # None
                    THEN Bind(st, st.magnetic_out[1])
                    ELSE LET g == gen_unique_name(st.ctx) IN
                         Bind([st EXCEPT !.ctx = g.ctx,
                                         !.magnetic_out = Some(g.name)], g.name)
               [] OTHER -> Err("generic_auto"))
      [] bucket.tag = "Name" ->
            IF starts_with_tilde(bucket.name)
            THEN Err("reserved_name")
            ELSE Bind(st, bucket.name)
      [] bucket.tag = "Inline" -> Err("todo_panic")
      [] bucket.tag = "Null" -> Bind(st, <<>>)
      [] OTHER -> Err("resolved_direct")

RECURSIVE t_slot_loop(_, _, _)
t_slot_loop(st, slots, k) ==
    IF st.ctx.err # "" \/ k > Len(slots) THEN st
    ELSE t_slot_loop(t_resolve_slot(st, slots[k]), slots, k + 1)

RECURSIVE t_resolve_loop(_, _, _, _)
t_resolve_loop(ctx, transforms, i, last_magnetic_out) ==
    IF ctx.err # "" \/ i > Len(transforms) THEN ctx
    ELSE LET magnetic_out == IF i = Len(transforms)
                             THEN Some(<<"~", "o", "u", "t">>) ELSE None
             st == t_slot_loop([ctx |-> ctx,
                                last_magnetic_out |-> last_magnetic_out,
                                magnetic_out |-> magnetic_out,
                                insert_idx |-> Len(ctx.out), slots |-> <<>>],
                               transforms[i].slots, 1)
             trans == [transforms[i] EXCEPT !.slots = st.slots]
         IN IF st.ctx.err # "" THEN st.ctx
            ELSE t_resolve_loop([st.ctx EXCEPT !.out = Append(@, trans)],
                                transforms, i + 1, st.magnetic_out)

(***************************************************************************)
(* The node descriptions resolve_buckets is run on.                        *)
(***************************************************************************)
SeqsUpTo(S, n) == UNION {[1..k -> S] : k \in 1..n}

UserX == <<"x">>

UserTilde == <<"~", "1">>

\* Nodes without nesting: one input and one output (Remap), sources (only an
\* output), sinks (only an input), two inputs, a generic slot.
LeafNodes ==
    {Node(<<In(Auto), Out(Auto)>>),
     Node(<<In(Name(UserX)), Out(Auto)>>),
     Node(<<In(Auto), Out(Name(UserX))>>),
     Node(<<In(Name(UserX)), Out(Name(UserX))>>),
     Node(<<Out(Auto)>>),
     Node(<<In(Auto)>>),
     Node(<<In(Name(UserX))>>),
     Node(<<In(Name(UserTilde)), Out(Auto)>>),
     Node(<<In(Auto), Out(Name(UserTilde))>>),
     Node(<<Gen(Name(UserTilde))>>),
     Node(<<In(Auto), In(Auto), Out(Auto)>>),
     Node(<<In(Name(UserX)), In(Name(UserX)), Out(Auto)>>),
     Node(<<In(Null), Out(Auto)>>),
     Node(<<Gen(Auto)>>),
     Node(<<Gen(Name(UserX))>>)}

\* The nodes of inner lists; three of them nest once more.
InnerNodes ==
    {Node(<<In(Auto), Out(Auto)>>),
     Node(<<In(Name(UserX)), Out(Auto)>>),
     Node(<<In(Auto), Out(Name(UserX))>>),
     Node(<<In(Name(UserTilde)), Out(Auto)>>),
     Node(<<In(Chain(<<Node(<<In(Auto), Out(Auto)>>)>>)), Out(Auto)>>),
     Node(<<In(Auto), Out(Nest(<<Node(<<In(Auto), Out(Auto)>>)>>))>>),
     Node(<<In(Auto), Out(Chain(<<Node(<<In(Auto), Out(Name(UserTilde))>>)>>))>>)}

InnerLists == SeqsUpTo(InnerNodes, MaxInner)

NestIds == {Nest(l) : l \in InnerLists} \cup {Chain(l) : l \in InnerLists}

NestNodes ==
    UNION {{Node(<<In(n), Out(Auto)>>), Node(<<In(Auto), Out(n)>>),
            Node(<<Out(n)>>), Node(<<In(n)>>)} : n \in NestIds}

Before == {<<>>, <<Node(<<Out(Auto)>>)>>, <<Node(<<In(Name(UserX)), Out(Auto)>>)>>}

After == {<<>>, <<Node(<<In(Auto)>>)>>, <<Node(<<In(Auto), Out(Name(UserX))>>)>>}

NodeGraphs ==
    SeqsUpTo(LeafNodes, MaxNodes)
    \cup {b \o <<n>> \o a : b \in Before, n \in NestNodes, a \in After}

\* The transforms: the same shapes, and an Inline bucket.
TransformNodes ==
    {Node(<<In(Auto), Out(Auto)>>),
     Node(<<In(Name(UserX)), Out(Auto)>>),
     Node(<<In(Auto), Out(Name(UserX))>>),
     Node(<<Out(Auto)>>),
     Node(<<In(Auto)>>),
     Node(<<In(Name(UserX))>>),
     Node(<<In(Name(UserTilde)), Out(Auto)>>),
     Node(<<In(Auto), Out(Name(UserTilde))>>),
     Node(<<In(Auto), In(Auto), Out(Auto)>>),
     Node(<<Gen(Auto)>>),
     Node(<<In(Inline(<<Node(<<In(Auto), Out(Auto)>>)>>)), Out(Auto)>>)}

TransformGraphs == SeqsUpTo(TransformNodes, MaxNodes)

\* Every node gets its place in the description as its label.
RECURSIVE Relabel(_, _)
Relabel(nodes, path) ==
    [i \in 1..Len(nodes) |->
        [label |-> path \o <<i>>,
         slots |-> [k \in 1..Len(nodes[i].slots) |->
            LET sl == nodes[i].slots[k] IN
            Slot(sl.kind,
                 IF sl.id.inner = <<>> THEN sl.id
                 ELSE [sl.id EXCEPT !.inner = Relabel(@, path \o <<i, k>>)])]]]

(***************************************************************************)
(* resolve_buckets as steps: bind the names, then set the takes.           *)
(***************************************************************************)
EmptyCtx == [out |-> <<>>, next_id |-> 0, err |-> ""]

\* node::resolve_buckets up to the end of resolve_layer.
ResolveLayers ==
    /\ pipeline = "node"
    /\ rphase = "input"
    /\ LET ctx == resolve_layer(EmptyCtx, None, None, graph, TRUE) IN
       /\ rerr' = ctx.err
       /\ rphase' = IF ctx.err = "" THEN "layered" ELSE "failed"
       /\ sched' = IF ctx.err = "" THEN ctx.out ELSE <<>>
    /\ UNCHANGED <<graph, pipeline, storeVars, remapVars>>

\* transform::resolve_buckets up to the end of its loop.
TResolveLoop ==
    /\ pipeline = "transform"
    /\ rphase = "input"
    /\ LET ctx == t_resolve_loop(EmptyCtx, graph, 1, None) IN
       /\ rerr' = ctx.err
       /\ rphase' = IF ctx.err = "" THEN "layered" ELSE "failed"
       /\ sched' = IF ctx.err = "" THEN ctx.out ELSE <<>>
    /\ UNCHANGED <<graph, pipeline, storeVars, remapVars>>

\* The last-read pass; the schedule is returned.
LastReads ==
    /\ rphase = "layered"
    /\ sched' = mark_takes(sched)
    /\ rphase' = "resolved"
    /\ UNCHANGED <<graph, rerr, pipeline, storeVars, remapVars>>

StoreIdle ==
    /\ by_name = << >>
    /\ globals = << >>
    /\ tmp_vec = <<>>
    /\ stack = <<>>
    /\ hist = [n \in Names |-> <<>>]
    /\ t_by_name = << >>

InitResolve ==
    /\ StoreIdle
    /\ RemapIdle
    /\ \/ /\ pipeline = "node"
          /\ graph \in {Relabel(g, <<>>) : g \in NodeGraphs}
       \/ /\ pipeline = "transform"
          /\ graph \in {Relabel(g, <<>>) : g \in TransformGraphs}
    /\ rphase = "input"
    /\ sched = <<>>
    /\ rerr = ""

NextResolve ==
    \/ ResolveLayers
    \/ TResolveLoop
    \/ LastReads

SpecResolve == InitResolve /\ [][NextResolve]_vars

(***************************************************************************)
(* Claims about resolve_buckets.                                           *)
(***************************************************************************)
Positions ==
    UNION {{<<n, k>> : k \in 1..Len(sched[n].slots)} : n \in 1..Len(sched)}

SlotAt(p) == sched[p[1]].slots[p[2]]

InputPositions == {p \in Positions : SlotAt(p).kind = "Input"}

Readers(name) == {p \in InputPositions : SlotAt(p).id.name = name}

\* C5: in the schedule resolve_buckets returns, every name read by some
\* Input slot has exactly one Input slot with take = true; that slot belongs
\* to the last node of the schedule reading the name, every reader in an
\* earlier node has take = false, and no Output or Generic slot has take =
\* true.
C5_LastReadTake ==
    rphase = "resolved" =>
        /\ \A p \in Positions : SlotAt(p).id.take => SlotAt(p).kind = "Input"
        /\ \A p \in InputPositions :
              LET same == Readers(SlotAt(p).id.name)
                  takers == {q \in same : SlotAt(q).id.take}
              IN /\ Cardinality(takers) = 1
                 /\ \A t \in takers : \A q \in same :
                        /\ q[1] <= t[1]
                        /\ q[1] < t[1] => ~SlotAt(q).id.take

C5_Witness ==
    /\ rphase = "resolved"
    /\ \E p \in InputPositions, q \in InputPositions :
          /\ p[1] < q[1]
          /\ SlotAt(p).id.name = SlotAt(q).id.name
          /\ SlotAt(p).id.name # <<>>
          /\ SlotAt(q).id.take
          /\ ~SlotAt(p).id.take

\* The layers of a description that are resolved chained: the top-level list
\* and the list of every Chain, at any depth.
RECURSIVE ChainedLayers(_, _)
ChainedLayers(nodes, chained) ==
    (IF chained THEN {nodes} ELSE {})
    \cup UNION {UNION {ChainedLayers(nodes[i].slots[k].id.inner,
                                     nodes[i].slots[k].id.tag = "Chain")
                       : k \in 1..Len(nodes[i].slots)}
                : i \in 1..Len(nodes)}

\* The names the user wrote, at any depth.
RECURSIVE UserNames(_)
UserNames(nodes) ==
    UNION {UNION {IF nodes[i].slots[k].id.tag = "Name"
                  THEN {nodes[i].slots[k].id.name}
                  ELSE UserNames(nodes[i].slots[k].id.inner)
                  : k \in 1..Len(nodes[i].slots)}
           : i \in 1..Len(nodes)}

AutoSlots(node, kind) ==
    {k \in 1..Len(node.slots) :
        node.slots[k].kind = kind /\ node.slots[k].id.tag = "Auto"}

\* Consecutive nodes of a chained layer, the first with an Auto output slot
\* and the second with an Auto input slot.
AutoPairs ==
    {pr \in UNION {{<<l[i], l[i + 1]>> : i \in 1..(Len(l) - 1)}
                   : l \in ChainedLayers(graph, TRUE)} :
        AutoSlots(pr[1], "Output") # {} /\ AutoSlots(pr[2], "Input") # {}}

Scheduled(label) == CHOOSE n \in {sched[i] : i \in 1..Len(sched)} : n.label = label

\* The names a pair is bound by: those of the Auto outputs of its first node
\* and of the Auto inputs of its second node.
PairNames(pr) ==
    {Scheduled(pr[1].label).slots[k].id.name : k \in AutoSlots(pr[1], "Output")}
    \cup {Scheduled(pr[2].label).slots[k].id.name : k \in AutoSlots(pr[2], "Input")}

IsGeneratedName(name) ==
    /\ Len(name) >= 2
    /\ name[1] = "~"
    /\ \A j \in 2..Len(name) : \E d \in 1..10 : name[j] = DigitChars[d]

\* C6: when resolve_buckets succeeds, an Auto output of a node of a chained
\* layer and an Auto input of the next node of the layer are bound to one
\* name, which is a generated name ~k, is the name of no other such pair and
\* is no name the user wrote.
C6_ChainBinding ==
    rphase \in {"layered", "resolved"} =>
        \A pr \in AutoPairs :
            /\ Cardinality(PairNames(pr)) = 1
            /\ \A nm \in PairNames(pr) :
                  /\ IsGeneratedName(nm)
                  /\ nm \notin UserNames(graph)
                  /\ \A other \in AutoPairs \ {pr} : nm \notin PairNames(other)

C6_Witness ==
    /\ rphase = "resolved"
    /\ pipeline = "node"
    /\ UserNames(graph) # {}
    /\ \E l \in ChainedLayers(graph, TRUE) : l # graph /\
          \E i \in 1..(Len(l) - 1) : <<l[i], l[i + 1]>> \in AutoPairs
    /\ \E i \in 1..(Len(graph) - 1) : <<graph[i], graph[i + 1]>> \in AutoPairs

(***************************************************************************)
(* Charts (simfile.rs).  A beat is a BeatPos, an integer count of          *)
(* BeatPos::EPSILON; a time is an integer count of ticks.                  *)
(***************************************************************************)
\* HIT notes an input chart may hold.
MaxHits == 3
\* Holds (a HEAD and its TAIL) an input chart may hold.
MaxHolds == 2
\* The largest beat of an input chart.
MaxBeat == 2

KIND_HIT == "1"

KIND_HEAD == "2"

KIND_TAIL == "3"

Kinds == {KIND_HIT, KIND_HEAD, KIND_TAIL}

Note(kind, beat, key) == [kind |-> kind, beat |-> beat, key |-> key]

is_hit(note) == note.kind = KIND_HIT

is_head(note) == note.kind = KIND_HEAD

is_tail(note) == note.kind = KIND_TAIL

KeyCounts ==
    [DanceSingle |-> 4, DanceDouble |-> 8, DanceCouple |-> 8, DanceSolo |-> 6,
     DanceThreepanel |-> 3, DanceRoutine |-> 8, PumpSingle |-> 5,
     PumpHalfdouble |-> 6, PumpDouble |-> 10, PumpCouple |-> 10,
     PumpRoutine |-> 10, Kb7Single |-> 7, Ez2Single |-> 5, Ez2Double |-> 10,
     Ez2Real |-> 7, ParaSingle |-> 5, Ds3ddxSingle |-> 8, BmSingle5 |-> 6,
     BmVersus5 |-> 6, BmDouble5 |-> 12, BmSingle7 |-> 8, BmVersus7 |-> 8,
     BmDouble7 |-> 16, ManiaxSingle |-> 4, ManiaxDouble |-> 8,
     TechnoSingle4 |-> 4, TechnoSingle5 |-> 5, TechnoSingle8 |-> 8,
     TechnoDouble4 |-> 8, TechnoDouble5 |-> 10, TechnoDouble8 |-> 16,
     PnmFive |-> 5, PnmNine |-> 9, KickboxHuman |-> 4, KickboxQuadarm |-> 4,
     KickboxInsect |-> 6, KickboxArachnid |-> 8]

key_count(gamemode) == KeyCounts[gamemode]

ControlPoint(beat, beat_len) == [beat |-> beat, beat_len |-> beat_len]

\* The notes of a chart on one key, in list order.
KeyNotes(notes, key) == SelectSeq(notes, LAMBDA n : n.key = key)

\* The index of the first note after index i on the key of note i, 0 if none.
NextOnKey(notes, i) ==
    LET later == {j \in (i + 1)..Len(notes) : notes[j].key = notes[i].key}
    IN IF later = {} THEN 0 ELSE CHOOSE j \in later : \A m \in later : j <= m

\* The index of the last note before index i on the key of note i, 0 if none.
PrevOnKey(notes, i) ==
    LET earlier == {j \in 1..(i - 1) : notes[j].key = notes[i].key}
    IN IF earlier = {} THEN 0 ELSE CHOOSE j \in earlier : \A m \in earlier : j >= m

\* Simfile::check: the control points, then the notes.
check(chart) ==
    LET notes == chart.notes
        bpms == chart.bpms
        kc == key_count(chart.gamemode)
    IN /\ bpms # <<>>
       /\ bpms[1].beat >= 0
       /\ \A i \in 1..(Len(bpms) - 1) : bpms[i + 1].beat > bpms[i].beat
       /\ \A i \in 1..Len(bpms) : bpms[i].beat_len > 0
       /\ \A i \in 1..Len(notes) :
             /\ notes[i].beat >= (IF i = 1 THEN 0 ELSE notes[i - 1].beat)
             /\ notes[i].kind \in Kinds
             /\ notes[i].key >= 0
             /\ notes[i].key < kc
             /\ \A j \in (i + 1)..Len(notes) :
                   (notes[j].beat = notes[i].beat /\ notes[j].key = notes[i].key)
                       => is_tail(notes[i]) # is_tail(notes[j])
             /\ is_head(notes[i]) =>
                   LET j == NextOnKey(notes, i)
                   IN IF j = 0 THEN FALSE
                      ELSE is_tail(notes[j]) /\ notes[j].beat # notes[i].beat
             /\ is_tail(notes[i]) =>
                   LET j == PrevOnKey(notes, i)
                   IN IF j = 0 THEN FALSE ELSE is_head(notes[j])

(***************************************************************************)
(* The input charts: every note list that check accepts with at most      *)
(* MaxHits hits and MaxHolds holds on beats 0..MaxBeat, the notes of one   *)
(* beat listed by ascending key (a tail before a non-tail of its key) and  *)
(* the keys first used in ascending order (convert uses an input key only  *)
(* as an index into unlock_by_tails, so it treats the input keys alike).   *)
(***************************************************************************)
Held(notes, key) ==
    LET on == KeyNotes(notes, key)
    IN IF on = <<>> THEN FALSE ELSE is_head(Last(on))

CountKind(notes, kind) == Len(SelectSeq(notes, LAMBDA n : n.kind = kind))

\* May note n follow the list `notes`, given the caps on hits and holds.
CanFollowIn(notes, n, hits, holds) ==
    /\ n.key <= Cardinality({notes[i].key : i \in 1..Len(notes)})
    /\ IF notes = <<>> THEN TRUE ELSE n.beat >= Last(notes).beat
    /\ \A i \in 1..Len(notes) :
          notes[i].beat = n.beat =>
              \/ notes[i].key < n.key
              \/ notes[i].key = n.key /\ is_tail(notes[i]) /\ ~is_tail(n)
    /\ IF is_tail(n)
       THEN IF Held(notes, n.key)
            THEN Last(KeyNotes(notes, n.key)).beat < n.beat
            ELSE FALSE
       ELSE ~Held(notes, n.key)
    /\ is_hit(n) => CountKind(notes, KIND_HIT) < hits
    /\ is_head(n) => CountKind(notes, KIND_HEAD) < holds

CanFollow(notes, n) == CanFollowIn(notes, n, MaxHits, MaxHolds)

NoteSpaceIn(kc, beats) ==
    {Note(kind, beat, key) : kind \in Kinds, beat \in 0..beats, key \in 0..(kc - 1)}

NoteSpace(kc) == NoteSpaceIn(kc, MaxBeat)

RECURSIVE NoteListsIn(_, _, _, _, _)
NoteListsIn(notes, kc, hits, holds, beats) ==
    (IF \A key \in 0..(kc - 1) : ~Held(notes, key) THEN {notes} ELSE {})
    \cup UNION {NoteListsIn(Append(notes, n), kc, hits, holds, beats)
                : n \in {m \in NoteSpaceIn(kc, beats) : CanFollowIn(notes, m, hits, holds)}}

NoteListsFrom(notes, kc) == NoteListsIn(notes, kc, MaxHits, MaxHolds, MaxBeat)

\* Control points and offset of the input charts: the tempo changes at beat 1.
InputBpms == <<ControlPoint(0, 1), ControlPoint(1, 2)>>

InputCharts(gamemode) ==
    {[gamemode |-> gamemode, notes |-> notes, bpms |-> InputBpms,
      offset |-> 0, meta |-> "meta"]
     : notes \in NoteListsFrom(<<>>, key_count(gamemode))}

\* The input charts of a gamemode within given caps.
ChartsWithin(gamemode, hits, holds, beats) ==
    {[gamemode |-> gamemode, notes |-> notes, bpms |-> InputBpms,
      offset |-> 0, meta |-> "meta"]
     : notes \in NoteListsIn(<<>>, key_count(gamemode), hits, holds, beats)}

\* The same without the order of the notes of one beat: a note may follow
\* any note of its beat, a non-tail on the key of a tail of the beat only
\* after that tail.
CanFollowAnyOrder(notes, n, hits, holds) ==
    /\ n.key <= Cardinality({notes[i].key : i \in 1..Len(notes)})
    /\ IF notes = <<>> THEN TRUE ELSE n.beat >= Last(notes).beat
    /\ \A i \in 1..Len(notes) :
          (notes[i].beat = n.beat /\ notes[i].key = n.key)
              => (is_tail(notes[i]) /\ ~is_tail(n))
    /\ IF is_tail(n)
       THEN IF Held(notes, n.key)
            THEN Last(KeyNotes(notes, n.key)).beat < n.beat
            ELSE FALSE
       ELSE ~Held(notes, n.key)
    /\ is_hit(n) => CountKind(notes, KIND_HIT) < hits
    /\ is_head(n) => CountKind(notes, KIND_HEAD) < holds

RECURSIVE NoteListsAnyOrder(_, _, _, _, _)
NoteListsAnyOrder(notes, kc, hits, holds, beats) ==
    (IF \A key \in 0..(kc - 1) : ~Held(notes, key) THEN {notes} ELSE {})
    \cup UNION {NoteListsAnyOrder(Append(notes, n), kc, hits, holds, beats)
                : n \in {m \in NoteSpaceIn(kc, beats) :
                            CanFollowAnyOrder(notes, m, hits, holds)}}

(***************************************************************************)
(* ToTime (simfile.rs).  cur_idx counts from 1.                            *)
(***************************************************************************)
ToTime_new(chart) == [cur_idx |-> 1, cur_time |-> 0 - chart.offset]

RECURSIVE advance(_, _, _)
advance(tt, bpms, beat) ==
    IF tt.cur_idx + 1 <= Len(bpms)
    THEN IF beat >= bpms[tt.cur_idx + 1].beat
         THEN advance([cur_idx |-> tt.cur_idx + 1,
                       cur_time |-> tt.cur_time
                           + (bpms[tt.cur_idx + 1].beat - bpms[tt.cur_idx].beat)
                             * bpms[tt.cur_idx].beat_len],
                      bpms, beat)
         ELSE tt
    ELSE tt

beat_to_time_keeps_idx(tt, bpms, beat) ==
    LET at == advance(tt, bpms, beat)
    IN [to_time |-> [at EXCEPT !.cur_idx = tt.cur_idx],
        time |-> at.cur_time + (beat - bpms[at.cur_idx].beat) * bpms[at.cur_idx].beat_len]

beat_to_time_keeps_time(tt, bpms, beat) ==
    LET at == advance(tt, bpms, beat)
    IN [to_time |-> [at EXCEPT !.cur_time = tt.cur_time],
        time |-> tt.cur_time + (beat - bpms[at.cur_idx].beat) * bpms[at.cur_idx].beat_len]

\* Returns the ToTime as the call leaves it and the time of the beat.
beat_to_time(tt, bpms, beat) ==
    LET at == advance(tt, bpms, beat)
    IN [to_time |-> at,
        time |-> at.cur_time + (beat - bpms[at.cur_idx].beat) * bpms[at.cur_idx].beat_len]

(***************************************************************************)
(* KeyAlloc (node/remap.rs) and the same code inlined in filter::convert.  *)
(* An f64 instant is <<t>>; NEG_INFINITY is <<>>.  The weight curves of    *)
(* the model have their points one tick apart, so every slope is whole.    *)
(***************************************************************************)
NEG_INFINITY == <<>>

\* Remap::default's weights at 0, 1, 2 and 3 ticks.
WeightCurves == {<< <<0, 1>>, <<1, 10>>, <<2, 200>>, <<3, 300>> >>}

KeyAlloc_new(weight_curve, key_count_) ==
    [weight_points |->
        [i \in 1..(Len(weight_curve) - 1) |->
            LET this == weight_curve[i]
                next == weight_curve[i + 1]
                m == (next[2] - this[2]) \div (next[1] - this[1])
            IN <<next[1], m, (0 - this[1]) * m + this[2]>>],
     default_weight |-> IF weight_curve = <<>> THEN 1 ELSE Last(weight_curve)[2],
     last_active |-> [k \in 0..(key_count_ - 1) |-> NEG_INFINITY]]

\* time - last_active[out_key]: <<>> when the key was never active (infinite).
elapsed(time, last) == IF last = NEG_INFINITY THEN <<>> ELSE <<time - last[1]>>

RECURSIVE weight_from(_, _, _)
weight_from(ka, i, time) ==
    IF i > Len(ka.weight_points) THEN ka.default_weight
    ELSE IF time = <<>> THEN weight_from(ka, i + 1, time)
    ELSE IF time[1] <= ka.weight_points[i][1]
         THEN ka.weight_points[i][2] * time[1] + ka.weight_points[i][3]
         ELSE weight_from(ka, i + 1, time)

inactive_time_to_weight(ka, time) == weight_from(ka, 1, time)

touch_every(ka, key, time) ==
    [ka EXCEPT !.last_active = [k \in DOMAIN ka.last_active |-> <<time>>]]

\* KeyAlloc::touch
touch(ka, key, time) == [ka EXCEPT !.last_active[key] = <<time>>]

\* SliceRandom::choose_weighted: an error when there is no item, a negative
\* weight or no positive weight; otherwise any item of positive weight.
choose_weighted(keys, weight) ==
    IF keys = <<>> THEN {None}
    ELSE IF \E i \in 1..Len(keys) : weight[keys[i]] < 0 THEN {None}
    ELSE IF \A i \in 1..Len(keys) : weight[keys[i]] = 0 THEN {None}
    ELSE {Some(keys[i]) : i \in {j \in 1..Len(keys) : weight[keys[j]] > 0}}

\* The results the RNG allows: the key chosen (or None) and the KeyAlloc left.
alloc(ka, keys, time) ==
    LET weight == [k \in DOMAIN ka.last_active |->
                      inactive_time_to_weight(ka, elapsed(time, ka.last_active[k]))]
    IN {[key |-> c, key_alloc |-> IF c = None THEN ka ELSE touch(ka, c[1], time)]
        : c \in choose_weighted(keys, weight)}

\* A draw of the RNG is one of 0/DrawDen .. (DrawDen-1)/DrawDen of the
\* total weight.
DrawDen == 4

RECURSIVE cumulative_weight(_, _, _)
cumulative_weight(keys, weight, i) ==
    IF i = 0 THEN 0 ELSE weight[keys[i]] + cumulative_weight(keys, weight, i - 1)

\* WeightedIndex::sample for the draw d: the first item whose cumulative
\* weight is above d / DrawDen of the total.  No draw is made when
\* choose_weighted fails.
weighted_sample(keys, weight, d) ==
    IF choose_weighted(keys, weight) = {None} THEN None
    ELSE LET total == cumulative_weight(keys, weight, Len(keys))
             above == {i \in 1..Len(keys) :
                          DrawDen * cumulative_weight(keys, weight, i) > d * total}
         IN Some(keys[CHOOSE i \in above : \A j \in above : i <= j])

\* KeyAlloc::alloc with the draw d.
alloc_drawn(ka, keys, time, d) ==
    LET weight == [k \in DOMAIN ka.last_active |->
                      inactive_time_to_weight(ka, elapsed(time, ka.last_active[k]))]
        c == weighted_sample(keys, weight, d)
    IN [key |-> c, key_alloc |-> IF c = None THEN ka ELSE touch(ka, c[1], time)]

(***************************************************************************)
(* convert (node/remap.rs and filter.rs).                                  *)
(***************************************************************************)
\* The locals of convert before its loop.  filter::convert starts every
\* last active time at the time of beat 0, node::remap at NEG_INFINITY.
convert_locals(chart, cf, pl) ==
    LET in_keycount == key_count(chart.gamemode)
        out_keycount == key_count(cf.gamemode)
        ka == KeyAlloc_new(cf.weight_curve, out_keycount)
        zero == beat_to_time(ToTime_new(chart), chart.bpms, 0)
    IN [notes |-> chart.notes,
        to_time |-> IF pl = "filter" THEN zero.to_time ELSE ToTime_new(chart),
        key_alloc |-> IF pl = "filter"
                      THEN [ka EXCEPT !.last_active =
                               [k \in 0..(out_keycount - 1) |-> <<zero.time>>]]
                      ELSE ka,
        locked_outkeys |-> [k \in 0..(out_keycount - 1) |-> None],
        unlock_by_tails |-> [k \in 0..(in_keycount - 1) |-> 0],
        locks |-> <<>>,
        draws |-> 0,
        allocs |-> 0]

unlock_passed_never(locked, beat) == locked

\* locked_outkeys entry after the auto-unlock pass of a note at `beat`.
unlock_passed(locked, beat) ==
    IF locked = None THEN locked
    ELSE IF locked[1] = None THEN locked
    ELSE IF beat > locked[1][1] THEN None ELSE locked

\* The unlocked out keys, ascending: choose_tmp_buf.
unlocked_keys(locked_outkeys) ==
    SelectSeq([i \in 1..Cardinality(DOMAIN locked_outkeys) |-> i - 1],
              LAMBDA k : locked_outkeys[k] = None)

tail_out_key_first(cv, key) == 0

\* The out key unlocked by a tail on in key `key`.
tail_out_key(cv, key) == cv.unlock_by_tails[key]

\* One pass of the loop body, on note i: the locals it may leave.  locks
\* keeps locked_outkeys as every pass leaves it.  rng is the stream the RNG
\* draws from, or None for an RNG that may draw anything.
map_note_by(cv, bpms, i, rng) ==
    LET note == cv.notes[i]
        at == beat_to_time(cv.to_time, bpms, note.beat)
        note_time == at.time
        locked == [k \in DOMAIN cv.locked_outkeys |->
                      unlock_passed(cv.locked_outkeys[k], note.beat)]
    IN IF is_tail(note)
       THEN LET out_key == tail_out_key(cv, note.key)
            IN {[cv EXCEPT !.to_time = at.to_time,
                           !.locked_outkeys = [locked EXCEPT ![out_key] = None],
                           !.locks = Append(@, [locked EXCEPT ![out_key] = None]),
                           !.key_alloc = touch(cv.key_alloc, out_key, note_time),
                           !.notes[i].key = out_key]}
       ELSE {IF r.key = None
             THEN [cv EXCEPT !.to_time = at.to_time,
                             !.locked_outkeys = locked,
                             !.locks = Append(@, locked),
                             !.allocs = @ + 1,
                             !.notes[i].key = 0 - 1]
             ELSE [cv EXCEPT !.to_time = at.to_time,
                             !.locked_outkeys =
                                 [locked EXCEPT ![r.key[1]] =
                                     IF is_head(note) THEN Some(None)
                                     ELSE Some(Some(note.beat))],
                             !.locks =
                                 Append(@, [locked EXCEPT ![r.key[1]] =
                                     IF is_head(note) THEN Some(None)
                                     ELSE Some(Some(note.beat))]),
                             !.unlock_by_tails =
                                 IF is_head(note)
                                 THEN [@ EXCEPT ![note.key] = r.key[1]]
                                 ELSE @,
                             !.key_alloc = r.key_alloc,
                             !.draws = @ + 1,
                             !.allocs = @ + 1,
                             !.notes[i].key = r.key[1]]
             : r \in IF rng = None
                      THEN alloc(cv.key_alloc, unlocked_keys(locked), note_time)
                      ELSE {alloc_drawn(cv.key_alloc, unlocked_keys(locked),
                                        note_time, rng[1][cv.draws + 1])}}

\* The loop body with an RNG that may draw anything.
map_note(cv, bpms, i) == map_note_by(cv, bpms, i, None)

RECURSIVE convert_loop(_, _, _)
convert_loop(cv, bpms, i) ==
    IF i > Len(cv.notes) THEN {cv}
    ELSE UNION {convert_loop(next, bpms, i + 1) : next \in map_note(cv, bpms, i)}

retain_all(notes) == notes

\* notes.retain(|note| note.key >= 0)
retain(notes) == SelectSeq(notes, LAMBDA n : n.key >= 0)

avoid_shuffle_inverted(cf, in_keycount, out_keycount) ==
    ~cf.avoid_shuffle /\ in_keycount = out_keycount

\* "Do nothing if there is nothing to do".
nothing_to_do(cf, in_keycount, out_keycount) ==
    cf.avoid_shuffle /\ in_keycount = out_keycount

Done(chart, mapped, locks, draws, allocs, err) ==
    [sm |-> chart, mapped |-> mapped, locks |-> locks, draws |-> draws,
     allocs |-> allocs, err |-> err]

\* The outcomes of convert(sm, conf): the chart it leaves and the error it
\* returns ("" for Ok), one outcome for each way the RNG can draw.
convert(chart, cf, pl) ==
    LET in_keycount == key_count(chart.gamemode)
        out_keycount == key_count(cf.gamemode)
    IN IF ~(in_keycount > 0)
       THEN {Done(chart, chart.notes, <<>>, 0, 0, "cannot convert 0-key map")}
       ELSE IF ~(out_keycount > 0)
       THEN {Done(chart, chart.notes, <<>>, 0, 0, "cannot convert to 0-key map")}
       ELSE IF nothing_to_do(cf, in_keycount, out_keycount)
       THEN {Done([chart EXCEPT !.gamemode = cf.gamemode], chart.notes, <<>>, 0, 0, "")}
       ELSE {Done([chart EXCEPT !.notes = retain(cv.notes),
                                !.gamemode = cf.gamemode],
                  cv.notes, cv.locks, cv.draws, cv.allocs, "")
             : cv \in convert_loop(convert_locals(chart, cf, pl), chart.bpms, 1)}

(***************************************************************************)
(* The convert step.                                                       *)
(***************************************************************************)
Convert ==
    /\ cphase = "input"
    /\ \E r \in convert(sm, conf, pipeline) :
          /\ sm' = r.sm
          /\ ctrace' = [mapped |-> r.mapped, locks |-> r.locks, draws |-> r.draws,
                        allocs |-> r.allocs, err |-> r.err]
    /\ cphase' = "done"
    /\ UNCHANGED <<conf, sm_in, pipeline, storeVars, resolveVars>>

InitRemap ==
    /\ StoreIdle
    /\ ResolveIdle
    /\ pipeline \in {"node", "filter"}
    /\ sm \in InputCharts("DanceSingle")
    /\ sm_in = sm
    /\ conf \in [gamemode : {"DanceThreepanel", "KickboxHuman"},
                 avoid_shuffle : BOOLEAN,
                 weight_curve : WeightCurves]
    /\ cphase = "input"
    /\ ctrace = <<>>

NextRemap == Convert

SpecRemap == InitRemap /\ [][NextRemap]_vars

(***************************************************************************)
(* Claims about convert.                                                   *)
(***************************************************************************)
Converted == cphase = "done" /\ ctrace.err = "" /\ check(sm_in)

\* C7: after convert of a chart that check accepts, every HEAD left in the
\* chart is followed on its key by a TAIL as the next note of that key, at a
\* strictly greater beat.
C7_HoldIntegrity ==
    Converted =>
        \A i \in 1..Len(sm.notes) :
            is_head(sm.notes[i]) =>
                LET j == NextOnKey(sm.notes, i)
                IN IF j = 0 THEN FALSE
                   ELSE is_tail(sm.notes[j]) /\ sm.notes[j].beat > sm.notes[i].beat

\* C8: after convert of a chart that check accepts, no key carries two
\* non-tail notes of one beat, and the key given to a surviving HEAD is given
\* to no other HIT or HEAD before the TAIL of that hold.
C8_NoDoubleBooking ==
    Converted =>
        /\ \A i \in 1..Len(sm.notes) : \A j \in (i + 1)..Len(sm.notes) :
              (~is_tail(sm.notes[i]) /\ ~is_tail(sm.notes[j])
                  /\ sm.notes[i].key = sm.notes[j].key)
                  => sm.notes[i].beat # sm.notes[j].beat
        /\ \A i \in 1..Len(sm_in.notes) :
              (is_head(sm_in.notes[i]) /\ ctrace.mapped[i].key >= 0) =>
                  \A m \in (i + 1)..(NextOnKey(sm_in.notes, i) - 1) :
                      ~is_tail(sm_in.notes[m]) =>
                          ctrace.mapped[m].key # ctrace.mapped[i].key

SameKeycount == key_count(sm_in.gamemode) = key_count(conf.gamemode)

\* C9: with avoid_shuffle set and equal source and target keycounts, convert
\* changes the chart's gamemode and nothing else (the notes, their order and
\* every other field stay), draws nothing from the RNG and allocates no key.
C9_AvoidShuffleFrame ==
    (cphase = "done" /\ conf.avoid_shuffle /\ SameKeycount) =>
        /\ sm = [sm_in EXCEPT !.gamemode = conf.gamemode]
        /\ ctrace.err = ""
        /\ ctrace.draws = 0
        /\ ctrace.allocs = 0

C9_Witness ==
    /\ cphase = "done"
    /\ conf.avoid_shuffle
    /\ SameKeycount
    /\ sm.gamemode # sm_in.gamemode
    /\ Len(sm.notes) >= 2
    /\ \E i \in 1..Len(sm.notes) : is_head(sm.notes[i])

(***************************************************************************)
(* limit_simultaneous_keys (filter.rs).                                    *)
(***************************************************************************)
\* The largest value of Filter::Simultaneous the model tries.
MaxSimultaneous == 2
\* Hits, holds and largest beat of the charts handed to limit_simultaneous_keys.
LimitHits == 2

LimitHolds == 1

LimitBeat == 2

\* The index of the last note of the run of equal beats that starts at idx.
RECURSIVE beat_end(_, _)
beat_end(notes, idx) ==
    IF idx + 1 <= Len(notes)
    THEN IF notes[idx + 1].beat = notes[idx].beat
         THEN beat_end(notes, idx + 1)
         ELSE idx
    ELSE idx

\* active_notes after the notes idx..last were looked at, in order.
RECURSIVE scan_beat(_, _, _, _)
scan_beat(active_notes, notes, idx, last) ==
    IF idx > last THEN active_notes
    ELSE scan_beat(
            IF is_tail(notes[idx]) THEN [active_notes EXCEPT ![notes[idx].key] = FALSE]
            ELSE IF is_head(notes[idx]) THEN [active_notes EXCEPT ![notes[idx].key] = TRUE]
            ELSE active_notes,
            notes, idx + 1, last)

total_active_hits_only(active_notes, tmp_active_notes) == tmp_active_notes

total_active_notes(active_notes, tmp_active_notes) ==
    Cardinality({k \in DOMAIN active_notes : active_notes[k]}) + tmp_active_notes

saturating_sub(a, b) == IF a > b THEN a - b ELSE 0

choose_multiple_at_least(items, amount) ==
    {chosen \in SUBSET items :
        Cardinality(chosen) >= (IF amount > Cardinality(items)
                                THEN Cardinality(items) ELSE amount)}

\* SliceRandom::choose_multiple: any `amount` of the items, all of them when
\* there are fewer.
choose_multiple(items, amount) ==
    {chosen \in SUBSET items :
        Cardinality(chosen) = (IF amount > Cardinality(items)
                               THEN Cardinality(items) ELSE amount)}

beat_notes_with_tails(notes, first, last) == first..last

\* beat_notes: the indices pushed while the beat is gone through, those of
\* its notes that are not tails.
beat_notes_of(notes, first, last) == {i \in first..last : ~is_tail(notes[i])}

\* The outer loop from note_idx on: the (notes, active_notes) it may end with.
RECURSIVE limit_loop(_, _, _)
limit_loop(st, max_simultaneous, note_idx) ==
    IF note_idx > Len(st.notes) THEN {st}
    ELSE LET last == beat_end(st.notes, note_idx)
             beat_notes == beat_notes_of(st.notes, note_idx, last)
             tmp_active_notes ==
                 Cardinality({i \in beat_notes : ~is_head(st.notes[i])})
             active == scan_beat(st.active_notes, st.notes, note_idx, last)
             notes_to_remove ==
                 saturating_sub(total_active_notes(active, tmp_active_notes),
                                max_simultaneous)
         IN UNION {limit_loop(
                      [notes |-> [i \in 1..Len(st.notes) |->
                                     IF i \in chosen
                                     THEN [st.notes[i] EXCEPT !.key = 0 - 1]
                                     ELSE st.notes[i]],
                       active_notes |->
                           [k \in DOMAIN active |->
                               IF \E i \in chosen :
                                      is_head(st.notes[i]) /\ st.notes[i].key = k
                               THEN FALSE ELSE active[k]]],
                      max_simultaneous, last + 1)
                   : chosen \in choose_multiple(beat_notes, notes_to_remove)}

\* The note lists limit_simultaneous_keys(sm, max_simultaneous) may leave.
limit_simultaneous_keys(chart, max_simultaneous) ==
    {retain(st.notes)
     : st \in limit_loop(
                 [notes |-> chart.notes,
                  active_notes |-> [k \in 0..(key_count(chart.gamemode) - 1) |-> FALSE]],
                 max_simultaneous, 1)}

LimitSimultaneous ==
    /\ cphase = "input"
    /\ \E notes \in limit_simultaneous_keys(sm, conf.max_simultaneous) :
          sm' = [sm EXCEPT !.notes = notes]
    /\ cphase' = "done"
    /\ ctrace' = [err |-> ""]
    /\ UNCHANGED <<conf, sm_in, pipeline, storeVars, resolveVars>>

InitLimit ==
    /\ StoreIdle
    /\ ResolveIdle
    /\ pipeline = "filter"
    /\ sm \in ChartsWithin("DanceSingle", LimitHits, LimitHolds, LimitBeat)
    /\ sm_in = sm
    /\ conf \in [max_simultaneous : 0..MaxSimultaneous]
    /\ cphase = "input"
    /\ ctrace = <<>>

NextLimit == LimitSimultaneous

SpecLimit == InitLimit /\ [][NextLimit]_vars

\* The keys of a note list held across `beat`: a HEAD before the beat whose
\* next note on the key is a TAIL after the beat.
HeldAcross(notes, beat) ==
    {notes[i].key : i \in {j \in 1..Len(notes) :
        /\ is_head(notes[j])
        /\ notes[j].beat < beat
        /\ IF NextOnKey(notes, j) = 0 THEN TRUE
           ELSE notes[NextOnKey(notes, j)].beat > beat}}

NonTailsAt(notes, beat) ==
    {i \in 1..Len(notes) : ~is_tail(notes[i]) /\ notes[i].beat = beat}

\* C11: after limit_simultaneous_keys(max) on a chart that check accepts, at
\* every beat of the output the keys held by a surviving hold that started
\* earlier and has not ended, plus the surviving non-tail notes of the beat,
\* number at most max.
C11_SimultaneousBound ==
    (cphase = "done" /\ check(sm_in)) =>
        \A beat \in 0..(LimitBeat + 1) :
            Cardinality(HeldAcross(sm.notes, beat))
                + Cardinality(NonTailsAt(sm.notes, beat)) <= conf.max_simultaneous

C11_Witness ==
    /\ cphase = "done"
    /\ check(sm_in)
    /\ Len(sm.notes) < Len(sm_in.notes)
    /\ \E beat \in 0..LimitBeat :
          /\ HeldAcross(sm.notes, beat) # {}
          /\ NonTailsAt(sm.notes, beat) # {}
          /\ Cardinality(HeldAcross(sm.notes, beat))
                + Cardinality(NonTailsAt(sm.notes, beat)) = conf.max_simultaneous
          /\ Cardinality(HeldAcross(sm_in.notes, beat))
                + Cardinality(NonTailsAt(sm_in.notes, beat)) > conf.max_simultaneous

(***************************************************************************)
(* The measure encoder (simfile.rs): write_notedata cuts the notes into    *)
(* measures and write_measure emits each one.  The file is modelled as the *)
(* sequence of emitted measures; a row is a sequence of cells, a cell the  *)
(* character written for it.                                               *)
(***************************************************************************)
BEATS_IN_MEASURE == 4

FIXED_POINT == 48

\* Measures 0..MaxMeasure hold the notes of the charts handed to the encoder.
MaxMeasure == 1
\* Every half beat, and every offset up to MaxOffset that divides a beat,
\* may hold a note.
MaxOffset == 16
\* Notes of a chart handed to the encoder.
MaxWriteNotes == 2

\* BeatPos::from(BEATS_IN_MEASURE as f64).frac
MeasureLen == BEATS_IN_MEASURE * FIXED_POINT

RECURSIVE Pow(_, _)
Pow(base, exp) == IF exp = 0 THEN 1 ELSE base * Pow(base, exp - 1)

MinOf(set) == CHOOSE x \in set : \A y \in set : x <= y

\* get_denom's while loop for one factor.
RECURSIVE simplify_loop(_, _, _, _)
simplify_loop(num, den, factor, exp) ==
    IF num % factor = 0 /\ den % factor = 0
    THEN simplify_loop(num \div factor, den \div factor, factor, exp + 1)
    ELSE [num |-> num, den |-> den, exp |-> exp]

get_denom_twos_only(num) ==
    <<simplify_loop(num, FIXED_POINT, 2, 0).exp, 0>>

get_denom(num) ==
    LET twos == simplify_loop(num, FIXED_POINT, 2, 0)
        threes == simplify_loop(twos.num, twos.den, 3, 0)
    IN <<twos.exp, threes.exp>>

\* The exponents left after folding u32::min over the notes, from u32::MAX.
max_simplify_by(notes, measure_start) ==
    [idx \in 1..2 |->
        MinOf({get_denom(notes[i].beat - measure_start)[idx] : i \in 1..Len(notes)})]

simplify_by_finest_when_empty(notes, measure_start) ==
    IF notes = <<>> THEN 1
    ELSE LET exps == max_simplify_by(notes, measure_start)
         IN Pow(2, exps[1]) * Pow(3, exps[2])

simplify_by(notes, measure_start) ==
    IF notes = <<>> THEN FIXED_POINT
    ELSE LET exps == max_simplify_by(notes, measure_start)
         IN Pow(2, exps[1]) * Pow(3, exps[2])

cell_index_by_key(idx, key_count_, key, rows) == key * rows + idx

\* The cell of out_measure a note is written to: idx * key_count + note.key.
cell_index(idx, key_count_, key, rows) == idx * key_count_ + key

set_cell_if_empty(out_measure, at, kind) ==
    IF out_measure[at] = "0" THEN [out_measure EXCEPT ![at] = kind] ELSE out_measure

\* out_measure[at] = note.kind as u8
set_cell(out_measure, at, kind) == [out_measure EXCEPT ![at] = kind]

\* The second loop of write_measure: the cells of out_measure, or the error
\* of the first ensure! that fails.
RECURSIVE fill_measure(_, _, _, _, _, _)
fill_measure(out_measure, key_count_, measure_start, notes, simplify, i) ==
    IF i > Len(notes) THEN [err |-> "", out_measure |-> out_measure]
    ELSE LET rel_pos == notes[i].beat - measure_start
             idx == rel_pos \div simplify
             rows == BEATS_IN_MEASURE * (FIXED_POINT \div simplify)
         IN IF rel_pos % simplify # 0
            THEN [err |-> "incorrect_simplify_by", out_measure |-> out_measure]
            ELSE IF ~(idx < rows)
            THEN [err |-> "more_than_one_measure", out_measure |-> out_measure]
            ELSE IF ~(notes[i].key >= 0 /\ notes[i].key < key_count_)
            THEN [err |-> "key_outside_range", out_measure |-> out_measure]
            ELSE fill_measure(
                     set_cell(out_measure,
                              cell_index(idx, key_count_, notes[i].key, rows),
                              notes[i].kind),
                     key_count_, measure_start, notes, simplify, i + 1)

starts_before_never(note, measure_start) == FALSE

\* The first ensure! of write_measure fails: rel_pos < 0.
starts_before(note, measure_start) == note.beat - measure_start < 0

\* write_measure: the error, or the measure as it is written to the file.
write_measure(key_count_, measure_idx, measure_start, notes) ==
    IF \E i \in 1..Len(notes) : starts_before(notes[i], measure_start)
    THEN [err |-> "before_measure_start", measure |-> <<>>]
    ELSE LET simplify == simplify_by(notes, measure_start)
             rows_per_beat == FIXED_POINT \div simplify
             rows == BEATS_IN_MEASURE * rows_per_beat
             filled == fill_measure(
                           [p \in 0..(rows * key_count_ - 1) |-> "0"],
                           key_count_, measure_start, notes, simplify, 1)
         IN IF filled.err # "" THEN [err |-> filled.err, measure |-> <<>>]
            ELSE [err |-> "",
                  measure |->
                      [separator |-> measure_idx > 0,
                       measure_idx |-> measure_idx,
                       measure_start |-> measure_start,
                       notes |-> notes,
                       simplify_by |-> simplify,
                       rows |-> [row \in 1..rows |->
                                    [key \in 1..key_count_ |->
                                        filled.out_measure[(row - 1) * key_count_
                                                           + (key - 1)]]]]]

\* write_notedata's loop over the notes; st holds cur_measure,
\* measure_counter, the measures written so far and the error that ended it.
RECURSIVE notedata_loop(_, _, _)
notedata_loop(chart, st, note_idx) ==
    IF st.err # "" THEN st
    ELSE IF note_idx > Len(chart.notes) THEN st
    ELSE IF chart.notes[note_idx].beat - st.start_beat >= MeasureLen
    THEN LET written == write_measure(
                            key_count(chart.gamemode), st.measure_counter,
                            st.start_beat,
                            SubSeq(chart.notes, st.first_note, note_idx - 1))
         IN notedata_loop(
                chart,
                IF written.err # "" THEN [st EXCEPT !.err = written.err]
                ELSE [st EXCEPT !.file = Append(@, written.measure),
                                !.measure_counter = @ + 1,
                                !.first_note = note_idx,
                                !.start_beat = @ + MeasureLen],
                note_idx)
    ELSE notedata_loop(chart, st, note_idx + 1)

write_notedata(chart) ==
    LET st == notedata_loop(
                  chart,
                  [first_note |-> 1, start_beat |-> 0, measure_counter |-> 0,
                   file |-> <<>>, err |-> ""],
                  1)
        written == write_measure(
                       key_count(chart.gamemode), st.measure_counter,
                       st.start_beat,
                       SubSeq(chart.notes, st.first_note, Len(chart.notes)))
    IN IF st.err # "" THEN [err |-> st.err, file |-> st.file]
       ELSE IF written.err # "" THEN [err |-> written.err, file |-> st.file]
       ELSE [err |-> "", file |-> Append(st.file, written.measure)]

WriteNotedata ==
    /\ cphase = "input"
    /\ ctrace' = write_notedata(sm)
    /\ cphase' = "written"
    /\ UNCHANGED <<sm, conf, sm_in, pipeline, storeVars, resolveVars>>

\* The beats of the charts handed to the encoder.
WriteBeats ==
    {measure * MeasureLen + offset
     : measure \in 0..MaxMeasure,
       offset \in {o \in 0..(MeasureLen - 1)
                   : \/ o % (FIXED_POINT \div 2) = 0
                     \/ o \in 1..MaxOffset /\ FIXED_POINT % o = 0}}

\* The HIT notes that may be pushed after `notes`: sorted by beat, then by
\* key, a key used only after the keys below it.
NextHits(notes, kc) ==
    LET used == Cardinality({notes[i].key : i \in 1..Len(notes)})
    IN {Note(KIND_HIT, q[1], q[2])
        : q \in {r \in WriteBeats \X (0..(IF used < kc THEN used ELSE kc - 1)) :
                    IF notes = <<>> THEN TRUE
                    ELSE \/ r[1] > Last(notes).beat
                         \/ r[1] = Last(notes).beat /\ r[2] > Last(notes).key}}

\* A note is pushed onto the chart that will be written.
PushNote ==
    /\ cphase = "input"
    /\ Len(sm.notes) < MaxWriteNotes
    /\ \E note \in NextHits(sm.notes, key_count(sm.gamemode)) :
          sm' = [sm EXCEPT !.notes = Append(@, note)]
    /\ sm_in' = sm'
    /\ UNCHANGED <<conf, cphase, ctrace, pipeline, storeVars, resolveVars>>

\* The beats of the notes pushed out of order: before beat 0, and the first
\* beats of every measure.
EarlierBeats ==
    {0 - FIXED_POINT, 0 - 1}
    \cup {measure * MeasureLen + offset
          : measure \in 0..MaxMeasure, offset \in {0, FIXED_POINT}}

\* A note is pushed that breaks the order of the chart: its beat is before
\* beat 0 or before the beat of the last note.
PushEarlier ==
    /\ cphase = "input"
    /\ Len(sm.notes) < MaxWriteNotes
    /\ \E beat \in EarlierBeats :
          /\ IF beat < 0 THEN TRUE
             ELSE IF sm.notes = <<>> THEN FALSE
             ELSE beat < Last(sm.notes).beat
          /\ sm' = [sm EXCEPT !.notes = Append(@, Note(KIND_HIT, beat, 0))]
    /\ sm_in' = sm'
    /\ UNCHANGED <<conf, cphase, ctrace, pipeline, storeVars, resolveVars>>

\* A note of any kind is pushed on the beat and key of the last note, as
\* when a hold ends where the next note of its key starts.
PushSame ==
    /\ cphase = "input"
    /\ sm.notes # <<>>
    /\ Len(sm.notes) < MaxWriteNotes
    /\ \E kind \in Kinds :
          sm' = [sm EXCEPT !.notes =
                    Append(@, Note(kind, Last(sm.notes).beat, Last(sm.notes).key))]
    /\ sm_in' = sm'
    /\ UNCHANGED <<conf, cphase, ctrace, pipeline, storeVars, resolveVars>>

InitWrite ==
    /\ StoreIdle
    /\ ResolveIdle
    /\ pipeline = "node"
    /\ sm = [gamemode |-> "DanceThreepanel", notes |-> <<>>, bpms |-> InputBpms,
             offset |-> 0, meta |-> "meta"]
    /\ sm_in = sm
    /\ conf = <<>>
    /\ cphase = "input"
    /\ ctrace = <<>>

NextWrite == PushNote \/ PushEarlier \/ PushSame \/ WriteNotedata

SpecWrite == InitWrite /\ [][NextWrite]_vars

RECURSIVE GCD(_, _)
GCD(a, b) == IF b = 0 THEN a ELSE GCD(b, a % b)

\* The offsets of the notes of an emitted measure.
Offsets(measure) ==
    {measure.notes[i].beat - measure.measure_start : i \in 1..Len(measure.notes)}

Written == cphase = "written" /\ ctrace.err = ""

\* C12: every emitted measure that holds notes is written with simplify_by the
\* largest divisor of FIXED_POINT that divides every note offset of the
\* measure, and with 4 * (FIXED_POINT / simplify_by) rows of keycount cells.
C12_MeasureDenominator ==
    Written =>
        \A m \in 1..Len(ctrace.file) :
            LET measure == ctrace.file[m]
            IN measure.notes # <<>> =>
                  /\ FIXED_POINT % measure.simplify_by = 0
                  /\ \A o \in Offsets(measure) : o % measure.simplify_by = 0
                  /\ \A d \in 1..FIXED_POINT :
                        (FIXED_POINT % d = 0 /\ \A o \in Offsets(measure) : o % d = 0)
                            => d <= measure.simplify_by
                  /\ \A o \in Offsets(measure) :
                        GCD(measure.simplify_by, o) = measure.simplify_by
                  /\ Len(measure.rows) =
                         BEATS_IN_MEASURE * (FIXED_POINT \div measure.simplify_by)
                  /\ \A row \in 1..Len(measure.rows) :
                        Len(measure.rows[row]) = key_count(sm.gamemode)

C12_Witness ==
    /\ Written
    /\ \E m \in 1..Len(ctrace.file) :
          /\ Cardinality(Offsets(ctrace.file[m])) = 2
          /\ ctrace.file[m].simplify_by = 6
          /\ Len(ctrace.file[m].rows) = 32

\* C13 as stated: a measure without notes is written with FIXED_POINT rows,
\* all of them zeros.
C13_EmptyMeasureFixedPointRows ==
    Written =>
        \A m \in 1..Len(ctrace.file) :
            ctrace.file[m].notes = <<>> =>
                /\ Len(ctrace.file[m].rows) = FIXED_POINT
                /\ \A row \in 1..Len(ctrace.file[m].rows) :
                      \A key \in 1..key_count(sm.gamemode) :
                          ctrace.file[m].rows[row][key] = "0"

\* C13, amended: a measure without notes is written with BEATS_IN_MEASURE
\* rows (simplify_by is FIXED_POINT, one row per beat), all of them zeros.
C13_EmptyMeasureOneRowPerBeat ==
    Written =>
        \A m \in 1..Len(ctrace.file) :
            ctrace.file[m].notes = <<>> =>
                /\ ctrace.file[m].simplify_by = FIXED_POINT
                /\ Len(ctrace.file[m].rows) = BEATS_IN_MEASURE
                /\ \A row \in 1..Len(ctrace.file[m].rows) :
                      /\ Len(ctrace.file[m].rows[row]) = key_count(sm.gamemode)
                      /\ \A key \in 1..key_count(sm.gamemode) :
                            ctrace.file[m].rows[row][key] = "0"

C13_Witness ==
    /\ Written
    /\ Len(ctrace.file) = 2
    /\ ctrace.file[1].notes = <<>>
    /\ ctrace.file[2].notes # <<>>
    /\ Len(ctrace.file[1].rows) = BEATS_IN_MEASURE

(***************************************************************************)
(* BeatPos::denominator (simfile.rs).  Rust's % and / on i32 truncate      *)
(* towards zero, so they are modelled by rem and quot.                     *)
(***************************************************************************)
\* The fracs handed to denominator are -MaxFrac..MaxFrac.
MaxFrac == 100

rem(a, b) == IF a >= 0 THEN a % b ELSE 0 - ((0 - a) % b)

quot(a, b) == IF a >= 0 THEN a \div b ELSE 0 - ((0 - a) \div b)

\* denominator's while loop for one factor.
RECURSIVE denominator_loop(_, _, _)
denominator_loop(num, den, factor) ==
    IF rem(num, factor) = 0 /\ rem(den, factor) = 0
    THEN denominator_loop(quot(num, factor), quot(den, factor), factor)
    ELSE [num |-> num, den |-> den]

denominator_twos_only(bp) ==
    denominator_loop(bp.frac, FIXED_POINT, 2).den

denominator(bp) ==
    LET twos == denominator_loop(bp.frac, FIXED_POINT, 2)
        threes == denominator_loop(twos.num, twos.den, 3)
    IN threes.den

BeatPos(frac) == [frac |-> frac]

Denominator ==
    /\ cphase = "input"
    /\ ctrace' = [den |-> denominator(conf)]
    /\ cphase' = "done"
    /\ UNCHANGED <<sm, conf, sm_in, pipeline, storeVars, resolveVars>>

InitDenominator ==
    /\ StoreIdle
    /\ ResolveIdle
    /\ pipeline = "node"
    /\ sm = <<>>
    /\ sm_in = <<>>
    /\ conf \in {BeatPos(frac) : frac \in (0 - MaxFrac)..MaxFrac}
    /\ cphase = "input"
    /\ ctrace = <<>>

NextDenominator == Denominator

SpecDenominator == InitDenominator /\ [][NextDenominator]_vars

Abs(a) == IF a >= 0 THEN a ELSE 0 - a

\* C14: for every beat position, of positive, zero or negative frac,
\* denominator() divides FIXED_POINT, frac * denominator() is a multiple of
\* FIXED_POINT, and no smaller positive d has that property: denominator() is
\* FIXED_POINT / gcd(|frac|, FIXED_POINT).
C14_DenominatorMinimal ==
    cphase = "done" =>
        /\ ctrace.den > 0
        /\ FIXED_POINT % ctrace.den = 0
        /\ (conf.frac * ctrace.den) % FIXED_POINT = 0
        /\ \A d \in 1..(ctrace.den - 1) : (conf.frac * d) % FIXED_POINT # 0
        /\ ctrace.den = FIXED_POINT \div GCD(Abs(conf.frac), FIXED_POINT)

C14_Witness ==
    /\ cphase = "done"
    /\ conf.frac = 0 - 18
    /\ ctrace.den = 8

(***************************************************************************)
(* Successive ToTime::beat_to_time calls on one ToTime (simfile.rs).       *)
(* ctrace holds the calls made so far: the beat asked, the time returned   *)
(* and cur_idx as the call left it.                                        *)
(***************************************************************************)
\* Control points of a chart; their beats are 0..MaxPoints.
MaxPoints == 3
\* beat_len of a control point is 1..MaxBeatLen; the offset is 0..MaxBeatLen.
MaxBeatLen == 2
\* beat_to_time calls made on one ToTime.
MaxCalls == 3

\* The control point lists: beats strictly increasing, beat_len positive.
BpmLists ==
    UNION {{bpms \in [1..n -> {ControlPoint(beat, beat_len)
                                : beat \in 0..MaxPoints, beat_len \in 1..MaxBeatLen}]
            : \A i \in 1..(n - 1) : bpms[i].beat < bpms[i + 1].beat}
           : n \in 1..MaxPoints}

\* The beats asked of beat_to_time; -1 is before every control point.
CallBeats == (0 - 1)..(MaxPoints + 1)

BeatToTime ==
    /\ cphase = "input"
    /\ Len(ctrace) < MaxCalls
    /\ \E beat \in CallBeats :
          /\ IF ctrace = <<>> THEN TRUE ELSE beat >= Last(ctrace).beat
          /\ LET call == beat_to_time(conf, sm.bpms, beat)
             IN /\ conf' = call.to_time
                /\ ctrace' = Append(ctrace, [beat |-> beat, time |-> call.time,
                                             cur_idx |-> call.to_time.cur_idx])
    /\ UNCHANGED <<sm, sm_in, cphase, pipeline, storeVars, resolveVars>>

InitToTime ==
    /\ StoreIdle
    /\ ResolveIdle
    /\ pipeline = "node"
    /\ sm \in {[gamemode |-> "DanceSingle", notes |-> <<>>, bpms |-> bpms,
                offset |-> offset, meta |-> "meta"]
               : bpms \in BpmLists, offset \in 0..MaxBeatLen}
    /\ sm_in = sm
    /\ conf = ToTime_new(sm)
    /\ cphase = "input"
    /\ ctrace = <<>>

NextToTime == BeatToTime

SpecToTime == InitToTime /\ [][NextToTime]_vars

\* C15: with control points of strictly increasing beats and positive
\* beat_len, the times beat_to_time returns for a strictly increasing sequence
\* of beats are strictly increasing, beats before the first control point and
\* calls that cross one or several control points included.
C15_TimeMonotonic ==
    \A i \in 1..Len(ctrace) : \A j \in 1..Len(ctrace) :
        (i < j /\ ctrace[i].beat < ctrace[j].beat) => ctrace[i].time < ctrace[j].time

C15_Witness ==
    /\ Len(ctrace) = 3
    /\ ctrace[1].beat < sm.bpms[1].beat
    /\ ctrace[2].cur_idx = 1
    /\ ctrace[3].cur_idx = 3
    /\ sm.bpms[2].beat_len < sm.bpms[1].beat_len

(***************************************************************************)
(* Simfile::fix_tails (simfile.rs), applied once and then once more.       *)
(* ctrace keeps the notes the first application left.                      *)
(***************************************************************************)
\* BeatPos::EPSILON.frac
EPSILON == 1

\* HIT notes of a chart handed to fix_tails.
FixHits == 2
\* Holds of a chart handed to fix_tails.
FixHolds == 2
\* The largest beat of a chart handed to fix_tails.
FixBeat == 2

\* notes[j..].take_while(beat == cur_beat).any(key == key)
RECURSIVE key_follows(_, _, _, _)
key_follows(notes, j, cur_beat, key) ==
    IF j > Len(notes) THEN FALSE
    ELSE IF notes[j].beat # cur_beat THEN FALSE
    ELSE IF notes[j].key = key THEN TRUE
    ELSE key_follows(notes, j + 1, cur_beat, key)

rotate_right_none(notes, first, last) == notes

\* notes[first..=last].rotate_right(1)
rotate_right(notes, first, last) ==
    [k \in 1..Len(notes) |->
        IF k = first THEN notes[last]
        ELSE IF k > first /\ k <= last THEN notes[k - 1]
        ELSE notes[k]]

shift_wanted_anywhere(notes, i, cur_beat) ==
    is_tail(notes[i]) /\ \E j \in (i + 1)..Len(notes) : notes[j].key = notes[i].key

\* Is notes[i] a tail that fix_tails moves back?
shift_wanted(notes, i, cur_beat) ==
    is_tail(notes[i]) /\ key_follows(notes, i + 1, cur_beat, notes[i].key)

RECURSIVE fix_tails_loop(_, _, _, _)
fix_tails_loop(notes, cur_beat, cur_beat_first_note, i) ==
    IF i > Len(notes) THEN notes
    ELSE LET advanced == notes[i].beat > cur_beat
             beat == IF advanced THEN notes[i].beat ELSE cur_beat
             first == IF advanced THEN i ELSE cur_beat_first_note
         IN IF shift_wanted(notes, i, beat)
            THEN fix_tails_loop(
                     rotate_right([notes EXCEPT ![i].beat = @ - EPSILON], first, i),
                     beat, first, i + 1)
            ELSE fix_tails_loop(notes, beat, first, i + 1)

fix_tails(chart) == [chart EXCEPT !.notes = fix_tails_loop(@, 0, 1, 1)]

FixTails ==
    /\ cphase = "input"
    /\ sm' = fix_tails(sm)
    /\ ctrace' = sm'.notes
    /\ cphase' = "fixed"
    /\ UNCHANGED <<conf, sm_in, pipeline, storeVars, resolveVars>>

FixTailsAgain ==
    /\ cphase = "fixed"
    /\ sm' = fix_tails(sm)
    /\ cphase' = "fixed_again"
    /\ UNCHANGED <<conf, sm_in, ctrace, pipeline, storeVars, resolveVars>>

InitFixTails ==
    /\ StoreIdle
    /\ ResolveIdle
    /\ pipeline = "node"
    /\ sm \in ChartsWithin("DanceThreepanel", FixHits, FixHolds, FixBeat)
    /\ sm_in = sm
    /\ conf = <<>>
    /\ cphase = "input"
    /\ ctrace = <<>>

NextFixTails == FixTails \/ FixTailsAgain

SpecFixTails == InitFixTails /\ [][NextFixTails]_vars

\* Tails of the chart that share beat and key with a later non-tail note.
Coincidences(notes) ==
    {i \in 1..Len(notes) :
        /\ is_tail(notes[i])
        /\ \E j \in (i + 1)..Len(notes) :
              /\ notes[j].beat = notes[i].beat
              /\ notes[j].key = notes[i].key
              /\ ~is_tail(notes[j])}

\* C16: on a sorted chart whose holds are well paired, tails that share beat
\* and key with a following non-tail apart, a second fix_tails changes no
\* note's beat and no note's position in the list.
C16_FixTailsIdempotent ==
    (cphase = "fixed_again" /\ check(sm_in)) => sm.notes = ctrace

C16_Witness ==
    /\ cphase = "fixed_again"
    /\ check(sm_in)
    /\ Cardinality(Coincidences(sm_in.notes)) = 2
    /\ ctrace # sm_in.notes
    /\ sm.notes = ctrace

\* C17: on a chart whose only defects are tails that share beat and key with
\* a following non-tail, no tail that fix_tails moved back shares its new beat
\* and key with another note, and the chart fix_tails leaves satisfies check.
C17_ShiftMakesNoCollision ==
    (cphase = "fixed" /\ check(sm_in)) =>
        /\ \A i \in 1..Len(sm.notes) : \A j \in 1..Len(sm.notes) :
              (sm.notes[i].beat = sm.notes[j].beat /\ sm.notes[i].key = sm.notes[j].key)
                  => i = j
        /\ check(sm)

\* The user names of the description that start with '~'.
ReservedUserNames == {name \in UserNames(graph) : Len(name) >= 1 /\ name[1] = "~"}

Resolving == rphase \in {"layered", "resolved", "failed"}

\* C18: both resolve_buckets fail, and return no schedule, whenever a slot of
\* a node, at any depth, is a user name that starts with '~'; so in a schedule
\* that is returned no user name is a generated name ~k.
C18_ReservedNameRejected ==
    Resolving =>
        /\ ReservedUserNames # {} => (rphase = "failed" /\ rerr # "" /\ sched = <<>>)
        /\ rphase # "failed" => \A name \in UserNames(graph) : ~IsGeneratedName(name)

C18_Witness ==
    /\ pipeline = "node"
    /\ rphase = "failed"
    /\ rerr = "reserved_name"
    /\ \E i \in 1..Len(graph) : \E k \in 1..Len(graph[i].slots) :
          /\ graph[i].slots[k].id.tag = "Chain"
          /\ graph[i].slots[k].kind = "Output"
          /\ ReservedUserNames = UserNames(graph[i].slots[k].id.inner)
          /\ \E j \in 1..Len(graph[i].slots[k].id.inner) :
                \E n \in 1..Len(graph[i].slots[k].id.inner[j].slots) :
                    graph[i].slots[k].id.inner[j].slots[n].id.tag = "Chain"

\* The layers of a description, at any depth: the nodes of the layer, whether
\* it is resolved chained, and whether it is the top-level list.
RECURSIVE Layers(_, _, _)
Layers(nodes, chained, top) ==
    {[nodes |-> nodes, chained |-> chained, top |-> top]}
    \cup UNION {UNION {IF nodes[i].slots[k].id.tag \in {"Nest", "Chain"}
                       THEN Layers(nodes[i].slots[k].id.inner,
                                   nodes[i].slots[k].id.tag = "Chain", FALSE)
                       ELSE {}
                       : k \in 1..Len(nodes[i].slots)}
                : i \in 1..Len(nodes)}

\* The slots of a node, of a kind, that take or make a magnetic value.
MagneticSlots(node, kind) ==
    {k \in 1..Len(node.slots) :
        node.slots[k].kind = kind /\ node.slots[k].id.tag \in {"Auto", "Nest", "Chain"}}

\* Is a value pending when node i of the layer is reached?
Pending(layer, i) ==
    IF ~layer.chained THEN TRUE
    ELSE IF i = 1 THEN ~layer.top
    ELSE MagneticSlots(layer.nodes[i - 1], "Output") # {}

\* C19: node::resolve_buckets fails when a node of a chained layer has an Auto
\* output and the next node of the layer has no Auto, Nest or Chain input
\* slot; a schedule is returned only if every node that is reached with a
\* pending value and takes none is the first node of its layer.
C19_UnusedOutputRejected ==
    (pipeline = "node" /\ Resolving) =>
        /\ (\E l \in ChainedLayers(graph, TRUE) : \E i \in 1..(Len(l) - 1) :
               /\ AutoSlots(l[i], "Output") # {}
               /\ MagneticSlots(l[i + 1], "Input") = {})
              => (rphase = "failed" /\ sched = <<>>)
        /\ rphase # "failed" =>
              \A layer \in Layers(graph, TRUE, TRUE) : \A i \in 1..Len(layer.nodes) :
                  (Pending(layer, i) /\ MagneticSlots(layer.nodes[i], "Input") = {})
                      => i = 1

C19_Witness ==
    /\ pipeline = "node"
    /\ rphase = "failed"
    /\ rerr = "output_unused"
    /\ \E l \in ChainedLayers(graph, TRUE) :
          /\ l # graph
          /\ Len(l) = 2
          /\ AutoSlots(l[1], "Output") # {}
          /\ MagneticSlots(l[1], "Input") # {}
          /\ MagneticSlots(l[2], "Input") = {}

\* Does a node of the description, at any depth, have an Auto, Nest or Chain
\* input slot with no value pending for it?
Starved ==
    \E layer \in Layers(graph, TRUE, TRUE) : \E i \in 1..Len(layer.nodes) :
        Cardinality(MagneticSlots(layer.nodes[i], "Input"))
            > (IF Pending(layer, i) THEN 1 ELSE 0)

\* C20: in node::resolve_buckets an Auto, Nest or Chain input slot takes the
\* pending magnetic output.  Resolution fails when such a slot finds none
\* pending (the previous node made no magnetic output, an earlier input slot
\* of the node took it, or the node is the first top-level node); in a
\* schedule that is returned every such slot is bound to a generated name ~k,
\* never to a default.
C20_InputNeedsPending ==
    (pipeline = "node" /\ Resolving) =>
        /\ Starved => (rphase = "failed" /\ sched = <<>>)
        /\ rphase # "failed" =>
              \A layer \in Layers(graph, TRUE, TRUE) : \A i \in 1..Len(layer.nodes) :
                  \A k \in MagneticSlots(layer.nodes[i], "Input") :
                      IsGeneratedName(Scheduled(layer.nodes[i].label).slots[k].id.name)

C20_Witness ==
    /\ pipeline = "node"
    /\ rphase = "failed"
    /\ rerr = "input_unbound"
    /\ Len(graph) = 2
    /\ MagneticSlots(graph[1], "Input") = {}
    /\ AutoSlots(graph[1], "Output") # {}
    /\ Cardinality(AutoSlots(graph[2], "Input")) = 2

\* Is the node labelled `inner` a node of the list in slot k of the node
\* labelled `outer`, at any depth below that slot?
NestedIn(inner, outer, k) ==
    /\ Len(inner) > Len(outer) + 1
    /\ SubSeq(inner, 1, Len(outer)) = outer
    /\ inner[Len(outer) + 1] = k

\* The schedule indices of the nodes with a slot of a kind bound to a name.
NodesBound(kind, name) ==
    {n \in 1..Len(sched) :
        \E k \in 1..Len(sched[n].slots) :
            sched[n].slots[k].kind = kind /\ sched[n].slots[k].id.name = name}

ScheduledNames ==
    UNION {{sched[n].slots[k].id.name : k \in 1..Len(sched[n].slots)}
           : n \in 1..Len(sched)}

\* C21: in the schedule node::resolve_buckets returns, the nodes of a Nest or
\* Chain in an Input slot come before the node that holds the slot and the
\* nodes of a Nest or Chain in an Output slot come after it, and every node
\* that writes a generated bucket ~k comes before every node that reads it.
C21_NestedOrder ==
    (pipeline = "node" /\ rphase \in {"layered", "resolved"}) =>
        /\ \A p \in 1..Len(sched) : \A q \in 1..Len(sched) :
              \A k \in 1..Len(sched[p].slots) :
                  NestedIn(sched[q].label, sched[p].label, k) =>
                      /\ sched[p].slots[k].kind = "Input" => q < p
                      /\ sched[p].slots[k].kind = "Output" => q > p
        /\ \A name \in {n \in ScheduledNames : IsGeneratedName(n)} :
              \A w \in NodesBound("Output", name) : \A r \in NodesBound("Input", name) :
                  w < r

C21_Witness ==
    /\ pipeline = "node"
    /\ rphase = "resolved"
    /\ Len(sched) = 5
    /\ \E p \in 2..3 :
          /\ sched[p].slots[2].kind = "Output"
          /\ NestedIn(sched[p + 1].label, sched[p].label, 2)
          /\ NestedIn(sched[p + 2].label, sched[p].label, 2)
          /\ \E name \in ScheduledNames :
                /\ IsGeneratedName(name)
                /\ p \in NodesBound("Output", name)
                /\ p + 1 \in NodesBound("Input", name)

\* The names the Auto slots of a kind of a node are bound to in the schedule.
AutoNames(node, kind) ==
    {Scheduled(node.label).slots[k].id.name : k \in AutoSlots(node, kind)}

InnerLayers == {l \in Layers(graph, TRUE, TRUE) : ~l.top}

\* The label of the node that holds a nested layer, the layer that node is
\* in, and the slot of the node the layer is written in, as scheduled.
HolderLabel(layer) ==
    SubSeq(layer.nodes[1].label, 1, Len(layer.nodes[1].label) - 2)

HolderLayer(layer) ==
    CHOOSE l \in Layers(graph, TRUE, TRUE) :
        \E i \in 1..Len(l.nodes) : l.nodes[i].label = HolderLabel(layer)

HolderSlot(layer) ==
    Scheduled(HolderLabel(layer)).slots[
        layer.nodes[1].label[Len(layer.nodes[1].label) - 1]]

\* The name a nested layer is given as its input, where the schedule shows
\* it: the name of the Output slot the layer is written in, or, for a layer
\* in an Input slot, the Auto output of the node before the holder in a
\* chained layer.
LayerInput(layer) ==
    LET p == HolderLabel(layer)[Len(HolderLabel(layer))] IN
    IF HolderSlot(layer).kind = "Output" THEN {HolderSlot(layer).id.name}
    ELSE IF HolderLayer(layer).chained /\ p > 1
         THEN AutoNames(HolderLayer(layer).nodes[p - 1], "Output")
         ELSE {}

\* The name a nested layer is given as its output: the name of the Input slot
\* it is written in, or, for a layer in an Output slot, the Auto input of the
\* node after the holder in a chained layer.
LayerOutput(layer) ==
    LET p == HolderLabel(layer)[Len(HolderLabel(layer))] IN
    IF HolderSlot(layer).kind = "Input" THEN {HolderSlot(layer).id.name}
    ELSE IF HolderLayer(layer).chained /\ p < Len(HolderLayer(layer).nodes)
         THEN AutoNames(HolderLayer(layer).nodes[p + 1], "Input")
         ELSE {}

\* C22: in the schedule node::resolve_buckets returns, the Auto inputs of all
\* children of a Nest layer are bound to one bucket, the layer's input, and
\* their Auto outputs to one bucket, the layer's output.  In a Chain layer
\* the Auto input of the first child is the layer's input and of no other
\* child, the Auto output of the last child is the layer's output and of no
\* other child, and a child and the next are linked by a generated name that
\* is neither the layer's input nor its output.
C22_NestSharesChainLinks ==
    (pipeline = "node" /\ rphase \in {"layered", "resolved"}) =>
        \A layer \in InnerLayers :
            LET n == Len(layer.nodes)
                ins(i) == AutoNames(layer.nodes[i], "Input")
                outs(i) == AutoNames(layer.nodes[i], "Output")
                first == IF layer.chained THEN {1} ELSE 1..n
                last == IF layer.chained THEN {n} ELSE 1..n
                input == LayerInput(layer) \cup UNION {ins(i) : i \in first}
                output == LayerOutput(layer) \cup UNION {outs(i) : i \in last}
            IN /\ Cardinality(input) <= 1
               /\ Cardinality(output) <= 1
               /\ \A i \in (1..n) \ first : ins(i) \cap input = {}
               /\ \A i \in (1..n) \ last : outs(i) \cap output = {}
               /\ layer.chained =>
                     \A i \in 1..(n - 1) :
                         /\ Cardinality(outs(i) \cup ins(i + 1)) <= 1
                         /\ \A name \in outs(i) \cup ins(i + 1) :
                               /\ IsGeneratedName(name)
                               /\ name \notin input \cup output

\* A Chain of two children in an Input slot, after a node with an Auto
\* output: both ends of the layer and the link between the children are
\* bound, and the first child holds a Nest layer of its own.
C22_Witness ==
    /\ pipeline = "node"
    /\ rphase = "resolved"
    /\ \E layer \in InnerLayers :
          /\ layer.chained
          /\ Len(layer.nodes) = 2
          /\ HolderSlot(layer).kind = "Input"
          /\ LayerInput(layer) # {}
          /\ AutoNames(layer.nodes[1], "Input") = LayerInput(layer)
          /\ AutoNames(layer.nodes[2], "Output") = LayerOutput(layer)
          /\ AutoNames(layer.nodes[2], "Input") # {}
          /\ \E inner \in InnerLayers :
                /\ ~inner.chained
                /\ HolderLabel(inner) = layer.nodes[1].label
                /\ AutoNames(inner.nodes[1], "Input") = LayerInput(inner)
                /\ AutoNames(inner.nodes[1], "Output") = AutoNames(layer.nodes[2], "Input")

TailsAt(notes, beat) ==
    {i \in 1..Len(notes) : is_tail(notes[i]) /\ notes[i].beat = beat}

\* The notes of a beat that count as active when limit_simultaneous_keys
\* reaches it: the keys still held in what it has kept so far, and the
\* non-tail notes the chart has at the beat.
ActiveAt(beat) ==
    Cardinality(HeldAcross(sm.notes, beat)) + Cardinality(NonTailsAt(sm_in.notes, beat))

\* The non-tail notes of a beat that limit_simultaneous_keys discarded.
DiscardedAt(beat) ==
    Cardinality(NonTailsAt(sm_in.notes, beat)) - Cardinality(NonTailsAt(sm.notes, beat))

\* C23: limit_simultaneous_keys(max) on a chart that check accepts discards,
\* at a beat where the keys held plus the non-tail notes of the beat exceed
\* max, exactly that excess of the beat's non-tail notes, so that exactly max
\* stay active; at a beat where they do not exceed max it discards nothing;
\* it never discards a tail.
C23_DiscardsExactlyExcess ==
    (cphase = "done" /\ pipeline = "filter" /\ check(sm_in)) =>
        \A beat \in 0..(LimitBeat + 1) :
            /\ Cardinality(TailsAt(sm.notes, beat)) = Cardinality(TailsAt(sm_in.notes, beat))
            /\ IF ActiveAt(beat) > conf.max_simultaneous
               THEN /\ DiscardedAt(beat) = ActiveAt(beat) - conf.max_simultaneous
                    /\ Cardinality(HeldAcross(sm.notes, beat))
                          + Cardinality(NonTailsAt(sm.notes, beat)) = conf.max_simultaneous
               ELSE DiscardedAt(beat) = 0

\* A key is held, two notes start at the beat and max is 2: one of the two
\* is discarded; at another beat nothing is.
C23_Witness ==
    /\ cphase = "done"
    /\ pipeline = "filter"
    /\ check(sm_in)
    /\ conf.max_simultaneous = 2
    /\ \E beat \in 1..LimitBeat :
          /\ Cardinality(HeldAcross(sm.notes, beat)) = 1
          /\ Cardinality(NonTailsAt(sm_in.notes, beat)) = 2
          /\ DiscardedAt(beat) = 1
          /\ DiscardedAt(beat - 1) = 0
          /\ NonTailsAt(sm_in.notes, beat - 1) # {}

(***************************************************************************)
(* convert on charts whose notes of one beat come in any order, where a    *)
(* head can meet every out key locked after an earlier hold of its key.    *)
(***************************************************************************)
OrderHits == 3

OrderHolds == 2

OrderBeat == 2

InitRemapAnyOrder ==
    /\ StoreIdle
    /\ ResolveIdle
    /\ pipeline \in {"node", "filter"}
    /\ sm \in {[gamemode |-> "DanceSingle", notes |-> notes, bpms |-> InputBpms,
                offset |-> 0, meta |-> "meta"]
               : notes \in NoteListsAnyOrder(<<>>, key_count("DanceSingle"),
                                             OrderHits, OrderHolds, OrderBeat)}
    /\ sm_in = sm
    /\ conf \in [gamemode : {"DanceThreepanel"},
                 avoid_shuffle : {FALSE},
                 weight_curve : WeightCurves]
    /\ cphase = "input"
    /\ ctrace = <<>>

SpecRemapAnyOrder == InitRemapAnyOrder /\ [][NextRemap]_vars

\* The tails of the input whose HEAD convert discarded.
OrphanTails ==
    {i \in 1..Len(sm_in.notes) :
        /\ is_tail(sm_in.notes[i])
        /\ PrevOnKey(sm_in.notes, i) # 0
        /\ ctrace.mapped[PrevOnKey(sm_in.notes, i)].key = 0 - 1}

\* The out key of the last HEAD before note i, on the in key of note i, that
\* convert did not discard; 0 when there is none.
LastHeadOutKey(i) ==
    LET heads == {j \in 1..(i - 1) :
                     /\ is_head(sm_in.notes[j])
                     /\ sm_in.notes[j].key = sm_in.notes[i].key
                     /\ ctrace.mapped[j].key >= 0}
    IN IF heads = {} THEN 0
       ELSE ctrace.mapped[CHOOSE j \in heads : \A m \in heads : j >= m].key

\* C24 as stated: the tail of a discarded HEAD is emitted on out key 0 and
\* leaves out key 0 free.
C24_OrphanTailOnKeyZero ==
    Converted =>
        \A i \in OrphanTails :
            /\ ctrace.mapped[i].key = 0
            /\ ctrace.locks[i][0] = None

\* C24: when convert discards a HEAD because every out key is locked, the
\* TAIL of that hold is still emitted, on the out key of the last HEAD of
\* its in key that was not discarded (out key 0 when there was none), and
\* leaves that out key free.
C24_OrphanTailOnStaleKey ==
    Converted =>
        \A i \in OrphanTails :
            /\ ctrace.mapped[i].key = LastHeadOutKey(i)
            /\ ctrace.mapped[i].key >= 0
            /\ Len(sm.notes) = Cardinality({j \in 1..Len(sm_in.notes) : ctrace.mapped[j].key >= 0})
            /\ ctrace.locks[i][ctrace.mapped[i].key] = None

\* A HEAD is discarded after an earlier hold of its in key went to an out
\* key other than 0, and its TAIL is emitted on that out key.
C24_Witness ==
    /\ Converted
    /\ \E i \in OrphanTails :
          /\ LastHeadOutKey(i) # 0
          /\ ctrace.mapped[i].key = LastHeadOutKey(i)
          /\ \A k \in DOMAIN ctrace.locks[PrevOnKey(sm_in.notes, i)] :
                ctrace.locks[PrevOnKey(sm_in.notes, i)][k] # None

\* C25: after convert on the shuffle path, of a chart whose keys are within
\* the keycount of its gamemode, the chart has the target gamemode and every
\* note left has a key from 0 up to the target keycount; no note keeps the
\* key -1.  This holds also when heads were discarded and their tails took
\* the out key a stale unlock_by_tails entry names.
C25_KeysWithinTarget ==
    (/\ cphase = "done"
     /\ pipeline \in {"node", "filter"}
     /\ ~(conf.avoid_shuffle /\ key_count(sm_in.gamemode) = key_count(conf.gamemode))
     /\ \A i \in 1..Len(sm_in.notes) :
           sm_in.notes[i].key \in 0..(key_count(sm_in.gamemode) - 1))
        => /\ ctrace.err = ""
           /\ sm.gamemode = conf.gamemode
           /\ \A i \in 1..Len(sm.notes) :
                 /\ sm.notes[i].key # 0 - 1
                 /\ sm.notes[i].key >= 0
                 /\ sm.notes[i].key < key_count(conf.gamemode)

\* A head was discarded, and its tail is left in the chart on the out key of
\* an earlier hold, which is the last out key of the target.
C25_Witness ==
    /\ cphase = "done"
    /\ ctrace.err = ""
    /\ sm.gamemode = conf.gamemode
    /\ \E i \in 1..Len(sm_in.notes) :
          /\ is_tail(sm_in.notes[i])
          /\ ctrace.mapped[PrevOnKey(sm_in.notes, i)].key = 0 - 1
          /\ ctrace.mapped[i].key = key_count(conf.gamemode) - 1
          /\ \E j \in 1..Len(sm.notes) :
                sm.notes[j] = [sm_in.notes[i] EXCEPT !.key = key_count(conf.gamemode) - 1]
    /\ Len(sm.notes) < Len(sm_in.notes)

(***************************************************************************)
(* KeyAlloc::alloc called on its own: any candidate list, any time, on a   *)
(* KeyAlloc that earlier calls have left.                                  *)
(***************************************************************************)
\* Keys of the KeyAlloc.
AllocKeys == 3
\* Times are 0..AllocTime.
AllocTime == 1
\* Remap::default's curve; a curve of weight 0 everywhere; a curve of weight
\* 0 for a key active right now; a curve that starts at 1 tick, whose first
\* line is below 0 for a key active right now.
AllocCurves ==
    {<< <<0, 1>>, <<1, 10>>, <<2, 200>>, <<3, 300>> >>,
     << <<0, 0>>, <<1, 0>> >>,
     << <<0, 0>>, <<1, 10>> >>,
     << <<1, 1>>, <<2, 10>> >>}

\* Candidate lists as convert builds them: keys in ascending order.
CandidateLists ==
    {SelectSeq([i \in 1..AllocKeys |-> i - 1], LAMBDA k : k \in S)
     : S \in SUBSET (0..(AllocKeys - 1))}

\* One call of alloc; ctrace keeps the arguments of the last call, the
\* KeyAlloc before it and the key returned.
Alloc ==
    /\ cphase = "alloc"
    /\ \E keys \in CandidateLists : \E time \in 0..AllocTime :
          \E r \in alloc(conf, keys, time) :
              /\ conf' = r.key_alloc
              /\ ctrace' = <<[keys |-> keys, time |-> time,
                             before |-> conf, key |-> r.key]>>
    /\ UNCHANGED <<sm, sm_in, cphase, pipeline, storeVars, resolveVars>>

InitAlloc ==
    /\ StoreIdle
    /\ ResolveIdle
    /\ pipeline = "node"
    /\ sm = <<>>
    /\ sm_in = <<>>
    /\ conf \in {KeyAlloc_new(curve, AllocKeys) : curve \in AllocCurves}
    /\ cphase = "alloc"
    /\ ctrace = <<>>

NextAlloc == Alloc

SpecAlloc == InitAlloc /\ [][NextAlloc]_vars

\* The weight of a candidate at a call.
WeightAt(call, k) ==
    inactive_time_to_weight(call.before, elapsed(call.time, call.before.last_active[k]))

Candidates(call) == {call.keys[i] : i \in 1..Len(call.keys)}

\* What a call of alloc that chooses a key leaves.
Chosen(call, after) ==
    /\ call.key # None
    /\ call.key[1] \in Candidates(call)
    /\ after.last_active[call.key[1]] = <<call.time>>
    /\ \A k \in DOMAIN after.last_active :
          k # call.key[1] => after.last_active[k] = call.before.last_active[k]

Refused(call, after) ==
    /\ call.key = None
    /\ after.last_active = call.before.last_active

MaxInto == 2
\* Hits, holds and largest beat of the charts handed to batch_convert.
BatchHits == 1

BatchHolds == 1

BatchBeat == 1

\* The conf convert is given for one target of the list.
convert_conf(cf, gm) ==
    [gamemode |-> gm, avoid_shuffle |-> cf.avoid_shuffle, weight_curve |-> cf.weight_curve]

is_last_always(idx, len) == TRUE

\* idx + 1 == conf.into.len(), idx counted from 1 here.
is_last(idx, len) == idx = len

\* The loop of batch_convert from target idx on: the chart sm is left as, the
\* list returned and the error ("" for Ok), for each way the RNG can draw.
RECURSIVE batch_loop(_, _, _, _)
batch_loop(chart, cf, idx, out) ==
    IF idx > Len(cf.into) THEN {[sm |-> chart, out |-> out, err |-> ""]}
    ELSE IF is_last(idx, Len(cf.into))
    THEN UNION {IF r.err # "" THEN {[sm |-> r.sm, out |-> <<>>, err |-> r.err]}
                ELSE batch_loop(r.sm, cf, idx + 1, out)
                : r \in convert(chart, convert_conf(cf, cf.into[idx]), "filter")}
    ELSE UNION {IF r.err # "" THEN {[sm |-> chart, out |-> <<>>, err |-> r.err]}
                ELSE batch_loop(chart, cf, idx + 1, Append(out, r.sm))
                : r \in convert(chart, convert_conf(cf, cf.into[idx]), "filter")}

batch_convert(chart, cf) == batch_loop(chart, cf, 1, <<>>)

BatchConvert ==
    /\ cphase = "input"
    /\ \E r \in batch_convert(sm, conf) :
          /\ sm' = r.sm
          /\ ctrace' = [out |-> r.out, err |-> r.err]
    /\ cphase' = "done"
    /\ UNCHANGED <<conf, sm_in, pipeline, storeVars, resolveVars>>

InitBatch ==
    /\ StoreIdle
    /\ ResolveIdle
    /\ pipeline = "filter"
    /\ sm \in ChartsWithin("DanceSingle", BatchHits, BatchHolds, BatchBeat)
    /\ sm_in = sm
    /\ conf \in [into : UNION {[1..n -> {"DanceThreepanel", "KickboxHuman"}]
                               : n \in 0..MaxInto},
                 avoid_shuffle : BOOLEAN,
                 weight_curve : WeightCurves]
    /\ cphase = "input"
    /\ ctrace = <<>>

NextBatch == BatchConvert

SpecBatch == InitBatch /\ [][NextBatch]_vars

\* Is `to` a chart filter::convert can make of `from` for the target gm?
ConvertedFrom(from, to, gm) ==
    \E r \in convert(from, convert_conf(conf, gm), "filter") : r.err = "" /\ r.sm = to

\* C27: batch_convert with the targets g1..gn, n >= 1, returns n - 1 charts,
\* the i-th of gamemode gi and converted from the chart as it was given, and
\* leaves the chart itself converted, from what it was given as, to gn.  With
\* no target it returns no chart and leaves the chart as it was.
C27_BatchConvertsFromOriginal ==
    (cphase = "done" /\ pipeline = "filter" /\ "into" \in DOMAIN conf) =>
        LET n == Len(conf.into) IN
        /\ ctrace.err = ""
        /\ IF n = 0 THEN ctrace.out = <<>> /\ sm = sm_in
           ELSE /\ Len(ctrace.out) = n - 1
                /\ \A i \in 1..(n - 1) :
                      /\ ctrace.out[i].gamemode = conf.into[i]
                      /\ ConvertedFrom(sm_in, ctrace.out[i], conf.into[i])
                /\ sm.gamemode = conf.into[n]
                /\ ConvertedFrom(sm_in, sm, conf.into[n])

\* Two targets: a chart of the first is returned, with its notes on other
\* keys than in the chart given, which is left as it was but for its
\* gamemode, the second target.
C27_Witness ==
    /\ cphase = "done"
    /\ pipeline = "filter"
    /\ "into" \in DOMAIN conf
    /\ conf.into = <<"DanceThreepanel", "KickboxHuman">>
    /\ conf.avoid_shuffle
    /\ Len(ctrace.out) = 1
    /\ ctrace.out[1].gamemode = "DanceThreepanel"
    /\ Len(sm_in.notes) = 3
    /\ ctrace.out[1].notes # sm_in.notes
    /\ sm = [sm_in EXCEPT !.gamemode = "KickboxHuman"]

(***************************************************************************)
(* node::remap::convert and filter::convert on one chart with one RNG.     *)
(* Both seed the RNG from the chart and the salt "convert"; a draw of the  *)
(* RNG is the fraction d / DrawDen of the total weight.                    *)
(***************************************************************************)
\* Hits, holds and largest beat of the charts converted twice.
EquivHits == 2

EquivHolds == 1

EquivBeat == 1

\* simfile_rng(sm, "convert"): the stream seeded from the chart and the
\* salt, which is the stream filter::convert seeds from simfile_seed.
simfile_rng(seeded) == seeded

RECURSIVE convert_loop_drawn(_, _, _, _)
convert_loop_drawn(cv, bpms, i, rng) ==
    IF i > Len(cv.notes) THEN cv
    ELSE convert_loop_drawn(
            CHOOSE next \in map_note_by(cv, bpms, i, Some(rng)) : TRUE,
            bpms, i + 1, rng)

\* The chart convert leaves with the RNG stream rng.
convert_drawn(chart, cf, pl, rng) ==
    IF nothing_to_do(cf, key_count(chart.gamemode), key_count(cf.gamemode))
    THEN [chart EXCEPT !.gamemode = cf.gamemode]
    ELSE [chart EXCEPT
             !.notes = retain(convert_loop_drawn(convert_locals(chart, cf, pl),
                                                 chart.bpms, 1, rng).notes),
             !.gamemode = cf.gamemode]

\* The Remap node converts the chart.
RemapConvert ==
    /\ cphase = "input"
    /\ ctrace.node = None
    /\ ctrace' = [ctrace EXCEPT
                     !.node = Some(convert_drawn(sm, conf, "node", simfile_rng(ctrace.rng)))]
    /\ cphase' = IF ctrace.filter = None THEN "input" ELSE "compared"
    /\ UNCHANGED <<sm, conf, sm_in, pipeline, storeVars, resolveVars>>

\* The Convert filter converts the same chart.
FilterConvert ==
    /\ cphase = "input"
    /\ ctrace.filter = None
    /\ ctrace' = [ctrace EXCEPT
                     !.filter = Some(convert_drawn(sm, conf, "filter", ctrace.rng))]
    /\ cphase' = IF ctrace.node = None THEN "input" ELSE "compared"
    /\ UNCHANGED <<sm, conf, sm_in, pipeline, storeVars, resolveVars>>

InitEquiv ==
    /\ StoreIdle
    /\ ResolveIdle
    /\ pipeline = "node"
    /\ sm \in ChartsWithin("DanceSingle", EquivHits, EquivHolds, EquivBeat)
    /\ sm_in = sm
    /\ conf \in [gamemode : {"DanceThreepanel", "KickboxHuman"},
                 avoid_shuffle : BOOLEAN,
                 weight_curve : WeightCurves]
    /\ cphase = "input"
    /\ ctrace \in [rng : [1..(EquivHits + EquivHolds) -> 0..(DrawDen - 1)],
                   node : {None}, filter : {None}]

NextEquiv == RemapConvert \/ FilterConvert

SpecEquiv == InitEquiv /\ [][NextEquiv]_vars

\* C28: for the same chart, target gamemode, avoid_shuffle and weight curve,
\* and with the RNG seeded alike, filter::convert and node::remap::convert
\* leave the same chart: the same notes on the same out keys.
C28_FilterEqualsNode ==
    cphase = "compared" => ctrace.filter = ctrace.node

\* Is a note list sorted by beat, from beat 0 on?
SortedFromZero(notes) ==
    /\ \A i \in 1..Len(notes) : notes[i].beat >= 0
    /\ \A i \in 1..(Len(notes) - 1) : notes[i].beat <= notes[i + 1].beat

\* The measure a beat lies in.
MeasureOf(beat) == beat \div MeasureLen

\* Does a later note of the list have the beat and key of note i?
SharedLater(notes, i) ==
    \E j \in (i + 1)..Len(notes) :
        notes[j].beat = notes[i].beat /\ notes[j].key = notes[i].key

\* C29 as stated: for a chart sorted by beat with no beat below 0, write_notedata
\* writes the measures 0, 1, 2, ... up to the measure of the last note, each
\* once and none left out (one measure, measure 0, for a chart without
\* notes), with a separator before every measure but measure 0; every note is
\* written in the measure floor(beat / 4), in the row (beat - 4 * measure) *
\* rows_per_beat and the column of its key, and every other cell is '0'.
C29_ConsecutiveMeasures ==
    (cphase = "written" /\ pipeline = "node" /\ SortedFromZero(sm.notes)) =>
        /\ ctrace.err = ""
        /\ Len(ctrace.file)
              = 1 + (IF sm.notes = <<>> THEN 0 ELSE MeasureOf(Last(sm.notes).beat))
        /\ \A m \in 1..Len(ctrace.file) :
              /\ ctrace.file[m].measure_idx = m - 1
              /\ ctrace.file[m].separator = (m > 1)
              /\ Cardinality({c \in (1..Len(ctrace.file[m].rows))
                                     \X (1..key_count(sm.gamemode)) :
                                 ctrace.file[m].rows[c[1]][c[2]] # "0"})
                    = Cardinality({<<sm.notes[i].beat, sm.notes[i].key>>
                                   : i \in {j \in 1..Len(sm.notes) :
                                               MeasureOf(sm.notes[j].beat) = m - 1}})
        /\ \A i \in 1..Len(sm.notes) :
              LET measure == ctrace.file[MeasureOf(sm.notes[i].beat) + 1]
                  rows_per_beat == Len(measure.rows) \div BEATS_IN_MEASURE
                  in_rows == (sm.notes[i].beat
                                 - MeasureLen * MeasureOf(sm.notes[i].beat)) * rows_per_beat
              IN /\ in_rows % FIXED_POINT = 0
                 /\ measure.rows[in_rows \div FIXED_POINT + 1][sm.notes[i].key + 1]
                       = sm.notes[i].kind

\* C29 amended: for a chart sorted by beat with no beat below 0, write_notedata
\* writes the measures 0, 1, 2, ... up to the measure of the last note, each
\* once and none left out (one measure, measure 0, for a chart without
\* notes), with a separator before every measure but measure 0; every note is
\* written in the measure floor(beat / 4), in the row (beat - 4 * measure) *
\* rows_per_beat and the column of its key, unless a later note of the chart
\* has its beat and key, and every other cell is '0'.
C29_ConsecutiveMeasuresLastOnCell ==
    (cphase = "written" /\ pipeline = "node" /\ SortedFromZero(sm.notes)) =>
        /\ ctrace.err = ""
        /\ Len(ctrace.file)
              = 1 + (IF sm.notes = <<>> THEN 0 ELSE MeasureOf(Last(sm.notes).beat))
        /\ \A m \in 1..Len(ctrace.file) :
              /\ ctrace.file[m].measure_idx = m - 1
              /\ ctrace.file[m].separator = (m > 1)
              /\ Cardinality({c \in (1..Len(ctrace.file[m].rows))
                                     \X (1..key_count(sm.gamemode)) :
                                 ctrace.file[m].rows[c[1]][c[2]] # "0"})
                    = Cardinality({<<sm.notes[i].beat, sm.notes[i].key>>
                                   : i \in {j \in 1..Len(sm.notes) :
                                               MeasureOf(sm.notes[j].beat) = m - 1}})
        /\ \A i \in {j \in 1..Len(sm.notes) : ~SharedLater(sm.notes, j)} :
              LET measure == ctrace.file[MeasureOf(sm.notes[i].beat) + 1]
                  rows_per_beat == Len(measure.rows) \div BEATS_IN_MEASURE
                  in_rows == (sm.notes[i].beat
                                 - MeasureLen * MeasureOf(sm.notes[i].beat)) * rows_per_beat
              IN /\ in_rows % FIXED_POINT = 0
                 /\ measure.rows[in_rows \div FIXED_POINT + 1][sm.notes[i].key + 1]
                       = sm.notes[i].kind

\* A note a third of a beat into measure 0, and a note on another key half
\* a beat into measure 1: two measures, the second after a separator.
C29_Witness ==
    /\ cphase = "written"
    /\ ctrace.err = ""
    /\ SortedFromZero(sm.notes)
    /\ Len(sm.notes) = 2
    /\ sm.notes[1] = Note(KIND_HIT, 16, 0)
    /\ sm.notes[2] = Note(KIND_HIT, MeasureLen + 24, 1)
    /\ Len(ctrace.file) = 2
    /\ ctrace.file[2].separator
    /\ Len(ctrace.file[1].rows) = 12
    /\ ctrace.file[1].rows[2][1] = KIND_HIT
    /\ Len(ctrace.file[2].rows) = 8
    /\ ctrace.file[2].rows[2][2] = KIND_HIT

\* Does note i lie before the measure write_notedata has reached when it
\* comes to the note: before beat 0, or in a measure before that of an
\* earlier note?
Misplaced(notes, i) ==
    \/ notes[i].beat < 0
    \/ \E j \in 1..(i - 1) :
          notes[j].beat >= 0 /\ notes[i].beat < MeasureLen * MeasureOf(notes[j].beat)

\* C30: write_notedata returns the error of a note before its measure start,
\* and does not write the measure, when a note has a beat below 0 or comes
\* after a note of a later measure; the measures written before hold none of
\* these notes.  It returns this error for no other chart.
C30_MisplacedNoteRejected ==
    (cphase = "written" /\ pipeline = "node") =>
        /\ (\E i \in 1..Len(sm.notes) : Misplaced(sm.notes, i))
              <=> ctrace.err = "before_measure_start"
        /\ ctrace.err = "before_measure_start" =>
              /\ Len(ctrace.file) <= MaxMeasure
              /\ \A m \in 1..Len(ctrace.file) :
                    \A i \in 1..Len(ctrace.file[m].notes) :
                        ctrace.file[m].notes[i].beat >= ctrace.file[m].measure_start

\* A note of measure 1, then a note of measure 0: measure 0 was written,
\* without the note, and the error is returned in place of measure 1.
C30_Witness ==
    /\ cphase = "written"
    /\ ctrace.err = "before_measure_start"
    /\ Len(sm.notes) = 2
    /\ MeasureOf(sm.notes[1].beat) = 1
    /\ MeasureOf(sm.notes[2].beat) = 0
    /\ sm.notes[2].beat >= 0
    /\ Len(ctrace.file) = 1
    /\ ctrace.file[1].notes = <<>>

(***************************************************************************)
(* BeatPos::floor and BeatPos::ceil (simfile.rs).  floor subtracts         *)
(* rem_euclid, ceil subtracts Rust's truncating %, modelled by rem.        *)
(***************************************************************************)
\* The fracs rounded are -MaxRound..MaxRound.
MaxRound == 12

\* The steps rounded to have fracs -1..MaxStep.
MaxStep == 5

\* i32::rem_euclid for a positive divisor.
rem_euclid(a, b) == a % b

\* BeatPos::max, which derives Ord from frac.
max(a, b) == IF a.frac >= b.frac THEN a ELSE b

floor(bp, round_to) ==
    LET to == max(round_to, BeatPos(EPSILON))
    IN BeatPos(bp.frac - rem_euclid(bp.frac, to.frac))

ceil(bp, round_to) ==
    LET to == max(round_to, BeatPos(EPSILON))
        frac == bp.frac + (to.frac - 1)
    IN BeatPos(frac - rem(frac, to.frac))

Floor ==
    /\ cphase = "input"
    /\ ctrace' = [op |-> "floor", out |-> floor(conf.bp, conf.round_to)]
    /\ cphase' = "done"
    /\ UNCHANGED <<sm, conf, sm_in, pipeline, storeVars, resolveVars>>

Ceil ==
    /\ cphase = "input"
    /\ ctrace' = [op |-> "ceil", out |-> ceil(conf.bp, conf.round_to)]
    /\ cphase' = "done"
    /\ UNCHANGED <<sm, conf, sm_in, pipeline, storeVars, resolveVars>>

InitRound ==
    /\ StoreIdle
    /\ ResolveIdle
    /\ pipeline = "node"
    /\ sm = <<>>
    /\ sm_in = <<>>
    /\ conf \in {[bp |-> BeatPos(frac), round_to |-> BeatPos(step)] :
                    frac \in (0 - MaxRound)..MaxRound, step \in (0 - 1)..MaxStep}
    /\ cphase = "input"
    /\ ctrace = <<>>

NextRound == Floor \/ Ceil

SpecRound == InitRound /\ [][NextRound]_vars

\* The step floor and ceil round to: a step below EPSILON counts as EPSILON.
StepOf(round_to) == IF round_to.frac < EPSILON THEN EPSILON ELSE round_to.frac

\* C31: for every beat position, of negative frac too, floor(to) is the
\* largest multiple of the step that is <= the position and ceil(to) the
\* smallest multiple of the step that is >= it, a step below EPSILON being
\* taken as EPSILON.
C31_FloorCeilBracket ==
    cphase = "done" =>
        LET step == StepOf(conf.round_to)
            x == conf.bp.frac
            out == ctrace.out.frac
        IN /\ out % step = 0
           /\ ctrace.op = "floor" => out <= x /\ x < out + step
           /\ ctrace.op = "ceil" => out >= x /\ x > out - step

(***************************************************************************)
(* fix_tails on note lists that are sorted by beat and nothing more: the   *)
(* kinds and keys of the notes are arbitrary, so holds need not be paired. *)
(***************************************************************************)
\* Notes of such a list.
SortedNotes == 4
\* The largest beat of such a list.
SortedBeat == 1
\* The keys of such a list are 0..SortedKeys - 1.
SortedKeys == 2

\* Every extension of `notes` by at most n notes, beats not decreasing.
RECURSIVE SortedLists(_, _)
SortedLists(notes, n) ==
    {notes} \cup
    (IF n = 0 THEN {}
     ELSE UNION {SortedLists(Append(notes, m), n - 1) :
                    m \in {x \in {Note(kind, beat, key) : kind \in Kinds,
                                      beat \in 0..SortedBeat, key \in 0..(SortedKeys - 1)} :
                              IF notes = <<>> THEN TRUE ELSE x.beat >= Last(notes).beat}})

InitFixSorted ==
    /\ StoreIdle
    /\ ResolveIdle
    /\ pipeline = "node"
    /\ sm \in {[gamemode |-> "DanceThreepanel", notes |-> notes, bpms |-> InputBpms,
                offset |-> 0, meta |-> "meta"] : notes \in SortedLists(<<>>, SortedNotes)}
    /\ sm_in = sm
    /\ conf = <<>>
    /\ cphase = "input"
    /\ ctrace = <<>>

SpecFixSorted == InitFixSorted /\ [][NextFixTails]_vars

\* Tails of the list followed, within their own beat, by a note on their key.
Conflicts(notes) ==
    {i \in 1..Len(notes) :
        /\ is_tail(notes[i])
        /\ \E j \in (i + 1)..Len(notes) :
              notes[j].beat = notes[i].beat /\ notes[j].key = notes[i].key}

\* How many notes of the list equal n.
CountNote(notes, n) == Cardinality({i \in 1..Len(notes) : notes[i] = n})

\* The list with every tail of Conflicts moved back by EPSILON, in place.
ConflictsMovedBack(notes) ==
    [i \in 1..Len(notes) |->
        IF i \in Conflicts(notes)
        THEN [notes[i] EXCEPT !.beat = @ - EPSILON]
        ELSE notes[i]]

\* What fix_tails is to leave of the list `before`: a list sorted by beat,
\* free of conflicts, holding the notes of `before` with exactly the tails
\* that had a conflict moved back by EPSILON.
Repaired(before, after) ==
    /\ \A i \in 1..(Len(after) - 1) : after[i].beat <= after[i + 1].beat
    /\ Conflicts(after) = {}
    /\ Len(after) = Len(before)
    /\ \A i \in 1..Len(after) :
          CountNote(after, after[i]) = CountNote(ConflictsMovedBack(before), after[i])

\* Is every tail of the list preceded, on its key, by a head?
TailsPaired(notes) ==
    \A i \in 1..Len(notes) : is_tail(notes[i]) =>
        LET j == PrevOnKey(notes, i) IN IF j = 0 THEN FALSE ELSE is_head(notes[j])

C33_GetEachFlattened ==
    \A k \in 1..Len(stack) :
        stack[k].fn = "get_each" =>
            /\ \A v \in 1..Len(stack[k].visited) : Len(stack[k].visited[v]) = 1
            /\ Flatten(stack[k].visited) \o stack[k].flat = Flatten(stack[k].snap)

\* The default input name of transform::resolve_buckets.
DefaultIn == <<"~", "i", "n">>

\* C34: in transform::resolve_buckets an Auto input slot binds to the auto
\* output of the previous transform; the default input name "~in" is bound
\* only at the very first transform, and resolve_buckets fails when a later
\* transform has an Auto input and its predecessor has no auto output.
C34_AutoInputNeedsPredecessor ==
    (pipeline = "transform" /\ Resolving) =>
        \A i \in 1..Len(graph) :
            AutoSlots(graph[i], "Input") # {} =>
                IF i = 1
                THEN rphase # "failed" =>
                        \A k \in AutoSlots(graph[i], "Input") :
                            sched[i].slots[k].id.name = DefaultIn
                ELSE IF AutoSlots(graph[i - 1], "Output") = {}
                THEN rphase = "failed"
                ELSE rphase # "failed" =>
                        \A k \in AutoSlots(graph[i], "Input") :
                            \A o \in AutoSlots(graph[i - 1], "Output") :
                                sched[i].slots[k].id.name = sched[i - 1].slots[o].id.name

(***************************************************************************)
(* Remap::apply (node/remap.rs) on the store: store.get(from) with a       *)
(* visitor that converts every chart of the list it is handed and puts the *)
(* list, taken with mem::replace, into `into`.  convert changes a chart and  *)
(* keeps its place in the list; it returns Ok for every gamemode, every    *)
(* key count being positive.  ctrace keeps the store before and after.     *)
(***************************************************************************)
\* Lists the store may hold before a clone-mode apply is no longer offered.
MaxApplyLists == 4

\* A chart of the store after convert: charts 1..2 are in the source
\* gamemode, Cardinality(Charts) + c is chart c in the target gamemode,
\* which convert with avoid_shuffle leaves as it is.
converted(c) == IF c > Cardinality(Charts) THEN c ELSE c + Cardinality(Charts)

\* for sm in list.iter_mut() { convert(sm, self)?; }
convert_list(list) == [i \in 1..Len(list) |-> converted(list[i])]

\* Bucket::take_lists: the lists it hands to consume, in the order it does.
RECURSIVE take_lists_from(_, _)
take_lists_from(flat_simfiles, starts) ==
    IF starts = <<>> THEN <<flat_simfiles>>
    ELSE <<SubSeq(flat_simfiles, Head(starts) + 1, Len(flat_simfiles))>>
         \o take_lists_from(SubSeq(flat_simfiles, 1, Head(starts)), Tail(starts))

take_lists(b) ==
    IF b.lists = <<>> THEN <<>>
    ELSE take_lists_from(b.simfiles, take_lists_starts(b))

put_dropped(store, name, list) == store

\* SimfileStore::put on the map by_name.
put(store, name, list) ==
    IF name = NullName THEN store
    ELSE SetKey(store, name,
             put_list(IF name \in DOMAIN store THEN store[name] ELSE EmptyBucket, list))

\* The visits of Remap::apply, one per list handed out.
RECURSIVE apply_visits(_, _, _)
apply_visits(store, lists, into) ==
    IF lists = <<>> THEN store
    ELSE apply_visits(put(store, into, convert_list(Head(lists))), Tail(lists), into)

\* Remap::apply with from = Resolved(from, take) and into = Resolved(into, _).
Apply(from, take, into) ==
    /\ pipeline = "node"
    /\ stack = <<>>
    /\ LET present == from # NullName /\ from \in DOMAIN by_name
           lists == IF present THEN take_lists(by_name[from]) ELSE <<>>
           taken == IF present /\ take THEN RemoveKey(by_name, from) ELSE by_name
           after == apply_visits(taken, lists, into)
           hist_taken == IF present /\ take THEN [hist EXCEPT ![from] = <<>>] ELSE hist
       IN /\ (present /\ ~take) => StoredLists + Len(lists) <= MaxApplyLists
          /\ by_name' = after
          /\ tmp_vec' = IF Len(lists) >= 2 THEN <<>> ELSE tmp_vec
          /\ hist' = IF into = NullName THEN hist_taken
                     ELSE [hist_taken EXCEPT ![into] =
                              @ \o [i \in 1..Len(lists) |-> convert_list(lists[i])]]
          /\ ctrace' = [from |-> from, take |-> take, into |-> into,
                        before |-> by_name, after |-> after]
          /\ cphase' = "applied"
    /\ UNCHANGED <<globals, stack, t_by_name, pipeline, sm, conf, sm_in>>
    /\ UNCHANGED resolveVars

InitApply ==
    /\ pipeline = "node"
    /\ ResolveIdle
    /\ RemapIdle
    /\ t_by_name = << >>
    /\ by_name = << >>
    /\ globals = << >>
    /\ tmp_vec = <<>>
    /\ stack = <<>>
    /\ hist = [n \in Names |-> <<>>]

NextApply ==
    \/ \E name \in Names \cup {NullName}, list \in PutLists : Put(name, list)
    \/ \E from \in Names \cup {NullName}, take \in BOOLEAN,
          into \in Names \cup {NullName} : Apply(from, take, into)

SpecApply == InitApply /\ [][NextApply]_vars

\* The lists a name holds in a store, none when the name is absent.
ListsIn(store, name) ==
    IF name \in DOMAIN store THEN ListsOf(store[name]) ELSE <<>>

\* Is `gained` one list per list of `lists`, each holding the converted
\* charts of its list in the same order, the lists in any order?
OneListPerList(gained, lists) ==
    /\ Len(gained) = Len(lists)
    /\ \E p \in [1..Len(lists) -> 1..Len(lists)] :
          /\ \A i \in 1..Len(lists) : \A j \in 1..Len(lists) : p[i] = p[j] => i = j
          /\ \A i \in 1..Len(lists) : gained[p[i]] = convert_list(lists[i])

\* What apply is to have done, given the lists the output bucket held when
\* the visits began.
Conserved(tr, out_before) ==
    LET lists == ListsIn(tr.before, tr.from)
        out == ListsIn(tr.after, tr.into)
    IN /\ tr.take => tr.from \notin DOMAIN tr.after
       /\ Len(out) = Len(out_before) + Len(lists)
       /\ SubSeq(out, 1, Len(out_before)) = out_before
       /\ OneListPerList(SubSeq(out, Len(out_before) + 1, Len(out)), lists)
       /\ ~tr.take =>
             /\ tr.from \in DOMAIN tr.after
             /\ SubSeq(ListsIn(tr.after, tr.from), 1, Len(lists)) = lists

Applied == cphase = "applied" /\ ctrace.from \in DOMAIN ctrace.before

\* C35 as stated: after Remap::apply on a take-mode input the input bucket is
\* absent and the output bucket has gained one list per input list, holding
\* the same number of charts in the same order, so that no chart is lost or
\* duplicated; on a clone-mode input the input bucket also still holds its
\* original lists.
C35_ApplyConserves ==
    Applied => Conserved(ctrace, ListsIn(ctrace.before, ctrace.into))

\* C35 amended: the same when the output is a named bucket and, on a
\* take-mode input, another bucket than the input.
C35_ApplyConservesIntoNamed ==
    (/\ Applied
     /\ ctrace.into # NullName
     /\ ctrace.take => ctrace.into # ctrace.from)
        => Conserved(ctrace, ListsIn(ctrace.before, ctrace.into))

C35_Witness ==
    /\ Applied
    /\ ctrace.take
    /\ ctrace.from = "a"
    /\ ctrace.into = "b"
    /\ ListsIn(ctrace.before, "a") = << <<1>>, <<1, 2>> >>
    /\ ListsIn(ctrace.before, "b") = <<>>
    /\ ListsIn(ctrace.after, "b") = << <<3, 4>>, <<3>> >>
    /\ "a" \notin DOMAIN ctrace.after

(***************************************************************************)
(* node::remap::convert to a gamemode with at least as many keys as the    *)
(* source, with Remap::default's weight curve and with a curve whose first *)
(* point lies after elapsed time 0.                                        *)
(***************************************************************************)
\* HIT notes of a chart converted to at least as many keys.
WidenHits == 3
\* Holds of such a chart.
WidenHolds == 1
\* The largest beat of such a chart.
WidenBeat == 2

\* Weight 1 at 2 ticks and 10 at 3 ticks: the line through the first two
\* points, which inactive_time_to_weight follows for every time up to the
\* second point, is negative at 1 tick.
LateCurve == << <<2, 1>>, <<3, 10>> >>

InitRemapWiden ==
    /\ StoreIdle
    /\ ResolveIdle
    /\ pipeline = "node"
    /\ sm \in {[gamemode |-> "DanceThreepanel", notes |-> notes, bpms |-> InputBpms,
                offset |-> 0, meta |-> "meta"]
               : notes \in NoteListsAnyOrder(<<>>, key_count("DanceThreepanel"),
                                             WidenHits, WidenHolds, WidenBeat)}
    /\ sm_in = sm
    /\ conf \in [gamemode : {"DanceThreepanel", "DanceSingle"},
                 avoid_shuffle : BOOLEAN,
                 weight_curve : WeightCurves \cup {LateCurve}]
    /\ cphase = "input"
    /\ ctrace = <<>>

SpecRemapWiden == InitRemapWiden /\ [][NextRemap]_vars

\* convert returned Ok on a chart check accepts, for a target with at least
\* as many keys as the source and a curve whose weights are all positive.
Widened ==
    /\ cphase = "done"
    /\ ctrace.err = ""
    /\ check(sm_in)
    /\ key_count(conf.gamemode) >= key_count(sm_in.gamemode)
    /\ \A p \in 1..Len(conf.weight_curve) : conf.weight_curve[p][2] > 0

\* No note was discarded: the notes left are the notes handed in, in order,
\* kinds and beats unchanged, and the tail of every hold is on the out key of
\* its head.
NothingDiscarded ==
    /\ Len(sm.notes) = Len(sm_in.notes)
    /\ \A i \in 1..Len(sm_in.notes) :
          /\ sm.notes[i].kind = sm_in.notes[i].kind
          /\ sm.notes[i].beat = sm_in.notes[i].beat
          /\ is_head(sm_in.notes[i]) =>
                sm.notes[NextOnKey(sm_in.notes, i)].key = sm.notes[i].key

Survivors == {sm.notes[j] : j \in 1..Len(sm.notes)}

\* The place in the output of a note that was left.
SurvivorIndex(n) == CHOOSE j \in 1..Len(sm.notes) : sm.notes[j] = n

\* C37: limit_simultaneous_keys on a chart that check accepts never discards
\* a TAIL; the TAIL of a discarded HEAD is left in the output and the note
\* before it on its key, if any, is not a HEAD; the notes left have the kind,
\* beat and key they had, in the order they had.
C37_TailsSurvive ==
    (cphase = "done" /\ pipeline = "filter" /\ check(sm_in)) =>
        /\ sm.notes = SelectSeq(sm_in.notes, LAMBDA n : n \in Survivors)
        /\ \A i \in 1..Len(sm_in.notes) :
              /\ is_tail(sm_in.notes[i]) => sm_in.notes[i] \in Survivors
              /\ (is_head(sm_in.notes[i]) /\ sm_in.notes[i] \notin Survivors) =>
                    LET tail == sm_in.notes[NextOnKey(sm_in.notes, i)]
                    IN /\ is_tail(tail)
                       /\ tail \in Survivors
                       /\ LET p == PrevOnKey(sm.notes, SurvivorIndex(tail))
                          IN IF p = 0 THEN TRUE ELSE ~is_head(sm.notes[p])

\* A HEAD was discarded at a beat with a HIT that was kept; its TAIL is the
\* first note left on its key.
C37_Witness ==
    /\ cphase = "done"
    /\ pipeline = "filter"
    /\ check(sm_in)
    /\ conf.max_simultaneous = 1
    /\ sm_in.notes = <<Note(KIND_HIT, 0, 0), Note(KIND_HEAD, 0, 1), Note(KIND_TAIL, 1, 1)>>
    /\ sm.notes = <<Note(KIND_HIT, 0, 0), Note(KIND_TAIL, 1, 1)>>

\* What a ToTime just created for the chart returns for the beat alone.
FreshCall(beat) == beat_to_time(ToTime_new(sm), sm.bpms, beat)

\* C38: for a non-decreasing sequence of beats asked of one ToTime, every
\* time returned is the time a ToTime just created with the same control
\* points and offset returns for that beat alone, the call leaves cur_idx
\* where the fresh one leaves it, and cur_idx never decreases.
C38_CachedEqualsFresh ==
    /\ \A i \in 1..Len(ctrace) :
          /\ ctrace[i].time = FreshCall(ctrace[i].beat).time
          /\ ctrace[i].cur_idx = FreshCall(ctrace[i].beat).to_time.cur_idx
    /\ \A i \in 1..(Len(ctrace) - 1) : ctrace[i].cur_idx <= ctrace[i + 1].cur_idx

\* Three calls, the second on the beat of the first and the third two
\* control points further, with a tempo change in between.
C38_Witness ==
    /\ Len(ctrace) = 3
    /\ ctrace[1].beat = ctrace[2].beat
    /\ ctrace[1].cur_idx = 2
    /\ ctrace[2].cur_idx = 2
    /\ ctrace[3].cur_idx = 3
    /\ sm.bpms[1].beat_len # sm.bpms[2].beat_len
    /\ sm.offset > 0

\* The row and column of the cell write_measure fills for a note of the
\* measure it wrote.
CellOf(measure, note) ==
    <<(note.beat - measure.measure_start) \div measure.simplify_by + 1, note.key + 1>>

\* C39: write_notedata reports no error for a sorted chart in which notes
\* share beat and key; in every measure written, the cell of a note holds the
\* kind of the last note of the measure with that beat and key, so that an
\* earlier one is not in the output, and two notes of the measure have the
\* same cell only when they share beat and key.
C39_LaterNoteWinsCell ==
    (cphase = "written" /\ pipeline = "node" /\ SortedFromZero(sm.notes)) =>
        /\ ctrace.err = ""
        /\ \A m \in 1..Len(ctrace.file) :
              LET measure == ctrace.file[m]
                  notes == measure.notes
              IN \A i \in 1..Len(notes) :
                    /\ \A j \in 1..Len(notes) :
                          CellOf(measure, notes[i]) = CellOf(measure, notes[j])
                              => /\ notes[i].beat = notes[j].beat
                                 /\ notes[i].key = notes[j].key
                    /\ LET last == CHOOSE j \in i..Len(notes) :
                                      /\ notes[j].beat = notes[i].beat
                                      /\ notes[j].key = notes[i].key
                                      /\ ~SharedLater(notes, j)
                           cell == CellOf(measure, notes[i])
                       IN measure.rows[cell[1]][cell[2]] = notes[last].kind

\* A hit half a beat into measure 0 and a tail on its beat and key: the one
\* cell that is filled holds the tail.
C39_Witness ==
    /\ cphase = "written"
    /\ ctrace.err = ""
    /\ sm.notes = <<Note(KIND_HIT, 24, 0), Note(KIND_TAIL, 24, 0)>>
    /\ Len(ctrace.file) = 1
    /\ Len(ctrace.file[1].rows) = 8
    /\ ctrace.file[1].rows[2][1] = KIND_TAIL
    /\ \A row \in 1..8 : \A key \in 1..3 :
          (row # 2 \/ key # 1) => ctrace.file[1].rows[row][key] = "0"

====
